---------------------------- MODULE Spec2Model ----------------------------
(***************************************************************************)
(* Model of the SmartRoute pathfinder: GraphService._dijkstra_with_transfers *)
(* (same-stop case, direct-edge shortcut, shared-route shortcut) and the    *)
(* queue search GraphService._dijkstra_pathfinding, driven through          *)
(* RouteOptimizer.find_route_by_stops; and of the coordinate entry point     *)
(* RouteOptimizer.find_route with its cache, GraphService.find_optimal_route *)
(* and RouteEnhancer.enhance_route (specification SpecRoute).               *)
(*                                                                         *)
(* Stop identifiers are the integers 1..NumStops (0 is an identifier that   *)
(* is not in the snapshot); route identifiers are strings.  Fares are       *)
(* whole currency units.  A connection keeps the fields the search reads:   *)
(* to_stop_id, route_id, time, cost.                                        *)
(*                                                                         *)
(* Query points and stops lie on one meridian: a coordinate is a latitude   *)
(* in units of 0.00001 degree, and the geodesic distance between two of     *)
(* them is 1106 mm per unit.  The longitude, equal everywhere, is left out  *)
(* of the cache key.  Of an enhanced itinerary the model keeps the walking  *)
(* legs, walking times and calories; the summary text and the CO2 figure    *)
(* are left out.                                                           *)
(***************************************************************************)
EXTENDS Integers, Sequences, FiniteSets, TLC

\* ------------------------------------------------------------------ bounds
NumStops == 5
MaxConns == 5
MaxLimit == 2

\* ------------------------------------------------- program constants
BUS_BOARDING_TIME == 2
METRO_BOARDING_TIME == 1
TRANSFER_WALKING_TIME == 3
DEFAULT_MAX_TRANSFERS == 5
TRANSFER_WEIGHT == 100
MINUTES_PER_STOP == 3
COST_PER_STOP == 2

\* ------------------------------------------------------------ input family
Stops == 1..NumStops
StopIds == 0..NumStops
Objectives == {"time", "cost", "transfers"}

Conn(f, t, r, tm, c) ==
    [from |-> f, to_stop_id |-> t, route_id |-> r, time |-> tm, cost |-> c]

\* Candidate connections.  A snapshot holds at most MaxConns of them, each
\* stop's connections in this order.
ConnPool ==
    << Conn(1, 2, "R1", 1, 1),
       Conn(1, 4, "R1", 15, 4),
       Conn(1, 4, "R2", 1, 1),
       Conn(2, 3, "R2", 1, 1),
       Conn(3, 4, "R3", 1, 1),
       Conn(4, 5, "R1", 1, 1),
       Conn(3, 1, "R3", 1, 1) >>

\* Candidate route documents of the backing store, in its natural order.
RoutePool ==
    << [route_id |-> "R1", route_type |-> "bus",   stops |-> <<1, 2, 4, 5>>],
       [route_id |-> "R2", route_type |-> "metro", stops |-> <<1, 4, 5>>] >>

RECURSIVE SelectMask(_, _, _)
SelectMask(seq, mask, i) ==
    IF i > Len(seq) THEN << >>
    ELSE (IF i \in mask THEN << seq[i] >> ELSE << >>) \o SelectMask(seq, mask, i + 1)

IsFrom(s, c) == c.from = s

StripFrom(c) ==
    [to_stop_id |-> c.to_stop_id, route_id |-> c.route_id, time |-> c.time, cost |-> c.cost]

RECURSIVE ConnsOf(_, _)
ConnsOf(seq, s) ==
    IF seq = << >> THEN << >>
    ELSE (IF IsFrom(s, Head(seq)) THEN << StripFrom(Head(seq)) >> ELSE << >>)
         \o ConnsOf(Tail(seq), s)

VARIABLES
    stops_cache,     \* stop id -> its ordered outbound connections
    routes_cache,    \* the route documents (cache and backing store agree)
    pc,              \* "idle" | "search" | "done"
    query,           \* the call being served
    pq,              \* the priority queue of the running search (a set of entries)
    best_costs,      \* stop id -> best priority recorded
    counter,         \* next value of the insertion counter
    result,          \* what the call returned
    trail,           \* the stages the call went through
    cache,           \* RouteOptimizer.cache: cache key -> enhanced itinerary
    visited,         \* get_algorithm_execution_steps: the stops marked visited
    step_count,      \* get_algorithm_execution_steps: the step counter
    steps,           \* get_algorithm_execution_steps: the records emitted so far
    db,              \* the backing store: the stop and route documents it holds
    loader,          \* the load_graph_data call in progress, if any
    pending          \* the find_route calls suspended in their search

\* the locals of the execution-trace variant
trace_vars == << visited, step_count, steps >>

\* the backing store, the load in progress and the suspended find_route calls
store_vars == << db, loader, pending >>

vars == << stops_cache, routes_cache, pc, query, pq, best_costs, counter, result, trail,
           cache, trace_vars, store_vars >>

\* ------------------------------------------------------------ result values
NoRoute ==
    [found |-> FALSE, path |-> << >>, segments |-> << >>,
     total_time |-> 0, total_cost |-> 0, transfers |-> 0]

Itinerary(path, segments, total_time, total_cost, transfers) ==
    [found |-> TRUE, path |-> path, segments |-> segments,
     total_time |-> total_time, total_cost |-> total_cost, transfers |-> transfers]

\* a segment recorded against its direction of travel
SegmentReversed(route_id, from_stop, to_stop, time, cost, boarding_time) ==
    [route_id |-> route_id, from_stop |-> to_stop, to_stop |-> from_stop,
     time |-> time, cost |-> cost, boarding_time |-> boarding_time]

Segment(route_id, from_stop, to_stop, time, cost, boarding_time) ==
    [route_id |-> route_id, from_stop |-> from_stop, to_stop |-> to_stop,
     time |-> time, cost |-> cost, boarding_time |-> boarding_time]

\* ------------------------------------------------------ graph store lookups
\* routes_cache.get(route_id, {}).get("route_type", "bus")
RouteTypeOf(route_id) ==
    IF \E i \in 1..Len(routes_cache) : routes_cache[i].route_id = route_id
    THEN LET i == CHOOSE j \in 1..Len(routes_cache) : routes_cache[j].route_id = route_id
         IN  routes_cache[i].route_type
    ELSE "bus"

\* get_mode_specific_penalties: <<boarding time, transfer walking time>>
get_mode_specific_penalties(route_id) ==
    IF RouteTypeOf(route_id) = "metro"
    THEN << METRO_BOARDING_TIME, TRANSFER_WALKING_TIME >>
    ELSE << BUS_BOARDING_TIME, TRANSFER_WALKING_TIME >>

InSeq(x, seq) == \E i \in 1..Len(seq) : seq[i] = x

\* list.index: the first position of x
IndexOf(x, seq) == CHOOSE i \in 1..Len(seq) : seq[i] = x /\ \A j \in 1..(i - 1) : seq[j] # x

\* ------------------------------------------------- the three short answers
\* the same-stop answer built like a one-hop route
SameStopRouteAsHop(start_stop_id) ==
    Itinerary(<< start_stop_id, start_stop_id >>, << >>, 0, 0, 0)

SameStopRoute(start_stop_id) == Itinerary(<< start_stop_id >>, << >>, 0, 0, 0)

\* the scan keeping the last matching connection instead of returning at the first
DirectIndexLast(conns, end_stop_id) ==
    CHOOSE i \in 1..Len(conns) :
        conns[i].to_stop_id = end_stop_id
        /\ \A j \in (i + 1)..Len(conns) : conns[j].to_stop_id # end_stop_id

\* Method 1: the first connection of the start stop whose target is the end stop
DirectIndex(conns, end_stop_id) ==
    CHOOSE i \in 1..Len(conns) :
        conns[i].to_stop_id = end_stop_id
        /\ \A j \in 1..(i - 1) : conns[j].to_stop_id # end_stop_id

HasDirect(start_stop_id, end_stop_id) ==
    \E i \in 1..Len(stops_cache[start_stop_id]) :
        stops_cache[start_stop_id][i].to_stop_id = end_stop_id

_create_route_from_connection(connection, start_stop_id, end_stop_id) ==
    LET boarding == get_mode_specific_penalties(connection.route_id)[1]
        segment  == Segment(connection.route_id, start_stop_id, end_stop_id,
                            connection.time, connection.cost, boarding)
    IN  Itinerary(<< start_stop_id, end_stop_id >>, << segment >>,
                  connection.time + boarding, connection.cost, 0)

\* Method 2: the first route document whose stop list holds both stops
ServesBoth(doc, a, b) == InSeq(a, doc.stops) /\ InSeq(b, doc.stops)

HasSharedRoute(start_stop_id, end_stop_id) ==
    \E i \in 1..Len(db.routes) : ServesBoth(db.routes[i], start_stop_id, end_stop_id)

\* the signed difference of the positions, kept as it is
AbsSigned(x) == x

Abs(x) == IF x < 0 THEN -x ELSE x

_create_route_from_data(route_doc, start_stop_id, end_stop_id, travel_time, travel_cost) ==
    LET boarding == get_mode_specific_penalties(route_doc.route_id)[1]
        segment  == Segment(route_doc.route_id, start_stop_id, end_stop_id,
                            travel_time, travel_cost, boarding)
    IN  Itinerary(<< start_stop_id, end_stop_id >>, << segment >>,
                  travel_time + boarding, travel_cost, 0)

_find_route_serving_both_stops(start_stop_id, end_stop_id) ==
    IF ~HasSharedRoute(start_stop_id, end_stop_id) THEN NoRoute
    ELSE LET i == CHOOSE k \in 1..Len(db.routes) :
                      ServesBoth(db.routes[k], start_stop_id, end_stop_id)
                      /\ \A j \in 1..(k - 1) :
                            ~ServesBoth(db.routes[j], start_stop_id, end_stop_id)
             doc == db.routes[i]
             stops_between == Abs(IndexOf(end_stop_id, doc.stops)
                                  - IndexOf(start_stop_id, doc.stops))
         IN  _create_route_from_data(doc, start_stop_id, end_stop_id,
                                     stops_between * MINUTES_PER_STOP,
                                     stops_between * COST_PER_STOP)

\* ------------------------------------------------------ the queue search
\* one heap entry: (cost, counter, current_stop, path, segments, transfers,
\*                  total_time, total_cost)
Entry(priority, cnt, stop, path, segments, transfers, total_time, total_cost) ==
    [priority |-> priority, cnt |-> cnt, stop |-> stop, path |-> path,
     segments |-> segments, transfers |-> transfers,
     total_time |-> total_time, total_cost |-> total_cost]

\* heapq orders the tuples by (priority, counter)
Before(e, f) ==
    e.priority < f.priority \/ (e.priority = f.priority /\ e.cnt <= f.cnt)

PopMin(q) == CHOOSE e \in q : \A f \in q : Before(e, f)

\* the search state of one call: queue, best_costs, counter, and how it ended
SearchState(q, best, cnt, outcome, route) ==
    [pq |-> q, best_costs |-> best, counter |-> cnt, outcome |-> outcome, route |-> route]

InitSearch(start_stop_id) ==
    SearchState({ Entry(0, 0, start_stop_id, << start_stop_id >>, << >>, 0, 0, 0) },
                (start_stop_id :> 0), 1, "running", NoRoute)

\* "Skip if we've found a better path to this stop already"
SkipTest(e, best) ==
    e.stop \in DOMAIN best /\ e.priority > best[e.stop]

\* a state at the limit itself is still expanded
PruneTestAboveLimit(e, max_transfers) == e.transfers > max_transfers

\* "Skip if too many transfers"
PruneTest(e, max_transfers) == e.transfers >= max_transfers

\* nothing charged for boarding the first route
BoardingPenaltyFreeFirstBoarding(segments, connection) ==
    IF Len(segments) = 0 THEN 0
    ELSE IF segments[Len(segments)].route_id # connection.route_id
         THEN get_mode_specific_penalties(connection.route_id)[1]
              + get_mode_specific_penalties(connection.route_id)[2]
         ELSE 0

\* boarding time charged on every segment, route change or not
BoardingPenaltyEverySegment(segments, connection) ==
    IF Len(segments) = 0
    THEN get_mode_specific_penalties(connection.route_id)[1]
    ELSE get_mode_specific_penalties(connection.route_id)[1]
         + (IF segments[Len(segments)].route_id # connection.route_id
            THEN get_mode_specific_penalties(connection.route_id)[2] ELSE 0)

\* boarding penalty and transfer flag of taking `connection` after `segments`
BoardingPenalty(segments, connection) ==
    IF Len(segments) = 0
    THEN get_mode_specific_penalties(connection.route_id)[1]
    ELSE IF segments[Len(segments)].route_id # connection.route_id
         THEN get_mode_specific_penalties(connection.route_id)[1]
              + get_mode_specific_penalties(connection.route_id)[2]
         ELSE 0

\* every segment after the first counted as a transfer
IsTransferEveryHop(segments, connection) == Len(segments) > 0

IsTransfer(segments, connection) ==
    Len(segments) > 0 /\ segments[Len(segments)].route_id # connection.route_id

\* the queue ordered by the number of transfers, whatever the objective
PriorityByTransfers(optimize_for, new_time, new_cost, new_transfers) == new_transfers

Priority(optimize_for, new_time, new_cost, new_transfers) ==
    IF optimize_for = "time" THEN new_time
    ELSE IF optimize_for = "cost" THEN new_cost
    ELSE new_transfers * TRANSFER_WEIGHT + new_time

\* every state reached is pushed, whatever is recorded for its stop
ShouldPushAlways(next_stop, priority, best) == TRUE

\* "Only add to queue if we found a better path to this stop"
ShouldPush(next_stop, priority, best) ==
    next_stop \notin DOMAIN best \/ priority < best[next_stop]

\* the body of the for loop, for the connection at position i
Relax(s, e, connection, optimize_for) ==
    IF InSeq(connection.to_stop_id, e.path) THEN s
    ELSE LET penalty       == BoardingPenalty(e.segments, connection)
             new_time      == e.total_time + connection.time + penalty
             new_cost      == e.total_cost + connection.cost
             new_transfers == e.transfers
                              + (IF IsTransfer(e.segments, connection) THEN 1 ELSE 0)
             priority      == Priority(optimize_for, new_time, new_cost, new_transfers)
             segment       == Segment(connection.route_id, e.stop, connection.to_stop_id,
                                      connection.time, connection.cost, penalty)
         IN  IF ShouldPush(connection.to_stop_id, priority, s.best_costs)
             THEN [s EXCEPT
                     !.best_costs = (connection.to_stop_id :> priority) @@ s.best_costs,
                     !.pq = s.pq \cup
                            { Entry(priority, s.counter, connection.to_stop_id,
                                    Append(e.path, connection.to_stop_id),
                                    Append(e.segments, segment),
                                    new_transfers, new_time, new_cost) },
                     !.counter = s.counter + 1]
             ELSE s

RECURSIVE Explore(_, _, _, _, _)
Explore(s, e, conns, i, optimize_for) ==
    IF i > Len(conns) THEN s
    ELSE Explore(Relax(s, e, conns[i], optimize_for), e, conns, i + 1, optimize_for)

RouteOf(e) == Itinerary(e.path, e.segments, e.total_time, e.total_cost, e.transfers)

\* the queue is read but the entry stays in it
PeekedOnly(s, e) == s

\* heapq.heappop(pq): the entry leaves the queue
Popped(s, e) == [s EXCEPT !.pq = s.pq \ {e}]

\* what one turn of the while loop does with the popped entry
StepKind(s, end_stop_id, max_transfers) ==
    IF s.pq = {} THEN "exhausted"
    ELSE LET e == PopMin(s.pq)
         IN  IF SkipTest(e, s.best_costs) THEN "skip"
             ELSE IF e.stop = end_stop_id THEN "found"
             ELSE IF PruneTest(e, max_transfers) THEN "prune"
             ELSE "expand"

\* one turn of the while loop (or the return after it)
SearchStep(s, end_stop_id, optimize_for, max_transfers) ==
    IF s.pq = {} THEN [s EXCEPT !.outcome = "none"]
    ELSE LET e    == PopMin(s.pq)
             rest == Popped(s, e)
             kind == StepKind(s, end_stop_id, max_transfers)
         IN  CASE kind = "skip"   -> rest
               [] kind = "found"  -> [rest EXCEPT !.outcome = "found", !.route = RouteOf(e)]
               [] kind = "prune"  -> rest
               [] kind = "expand" ->
                     IF e.stop \in DOMAIN stops_cache
                     THEN Explore(rest, e, stops_cache[e.stop], 1, optimize_for)
                     ELSE rest

\* _dijkstra_pathfinding run to its return
RECURSIVE RunSearch(_, _, _, _)
RunSearch(s, end_stop_id, optimize_for, max_transfers) ==
    IF s.outcome # "running" THEN s
    ELSE RunSearch(SearchStep(s, end_stop_id, optimize_for, max_transfers),
                   end_stop_id, optimize_for, max_transfers)

_dijkstra_pathfinding(start_stop_id, end_stop_id, optimize_for, max_transfers) ==
    RunSearch(InitSearch(start_stop_id), end_stop_id, optimize_for, max_transfers).route

\* ---------------------------------------------------------------- the calls
\* no load_graph_data call is running
NoLoad ==
    [pc |-> "idle", fetched |-> 0, previous |-> << >>, failed |-> FALSE, raised |-> FALSE]

NoQuery ==
    [entry |-> "none", start |-> 0, end |-> 0, optimize_for |-> "time", max_transfers |-> 0]

Query(entry, start_stop_id, end_stop_id, optimize_for, max_transfers) ==
    [entry |-> entry, start |-> start_stop_id, end |-> end_stop_id,
     optimize_for |-> optimize_for, max_transfers |-> max_transfers]

EmptyBest == [x \in {} |-> 0]

\* self.cache: Dict[str, OptimizedRoute] = {}
EmptyCache == [k \in {} |-> NoRoute]

Snapshots ==
    { [s \in Stops |-> ConnsOf(SelectMask(ConnPool, mask, 1), s)] :
        mask \in { m \in SUBSET (1..Len(ConnPool)) : Cardinality(m) <= MaxConns } }

\* the backing store is empty or holds the candidate documents
RouteStores == { << >>, RoutePool }

Init ==
    /\ stops_cache \in Snapshots
    /\ routes_cache \in RouteStores
    /\ pc = "idle"
    /\ query = NoQuery
    /\ pq = {}
    /\ best_costs = EmptyBest
    /\ counter = 0
    /\ result = NoRoute
    /\ trail = {}
    /\ cache = EmptyCache
    /\ visited = {}
    /\ step_count = 0
    /\ steps = << >>
    /\ db = [stops |-> stops_cache, routes |-> routes_cache]
    /\ loader = NoLoad
    /\ pending = << >>

Answer(q, route, stages) ==
    /\ pc' = "done"
    /\ query' = q
    /\ result' = route
    /\ trail' = stages
    /\ UNCHANGED << stops_cache, routes_cache, pq, best_costs, counter, cache,
                    trace_vars, store_vars >>

\* only the start stop looked up
KnownStartOnly(start_stop_id, end_stop_id) ==
    start_stop_id \in DOMAIN stops_cache

Known(start_stop_id, end_stop_id) ==
    start_stop_id \in DOMAIN stops_cache /\ end_stop_id \in DOMAIN stops_cache

ByStops(start_stop_id, end_stop_id, optimize_for) ==
    Query("by_stops", start_stop_id, end_stop_id, optimize_for, DEFAULT_MAX_TRANSFERS)

\* find_route_by_stops / _dijkstra_with_transfers: an id that is not cached
FindUnknownStop ==
    /\ pc = "idle"
    /\ \E a \in StopIds, b \in StopIds, o \in Objectives :
          /\ ~Known(a, b)
          /\ Answer(ByStops(a, b, o), NoRoute, {})

\* a call of get_algorithm_execution_steps
TraceQuery(start_stop_id, end_stop_id, optimize_for) ==
    Query("trace", start_stop_id, end_stop_id, optimize_for, DEFAULT_MAX_TRANSFERS)

\* get_algorithm_execution_steps, an id that is not cached: "return []"
TraceUnknownStop ==
    /\ pc = "idle"
    /\ \E a \in DOMAIN stops_cache \cup {0}, b \in DOMAIN stops_cache \cup {0},
          o \in Objectives :
          /\ ~Known(a, b)
          /\ pc' = "done"
          /\ query' = TraceQuery(a, b, o)
          /\ UNCHANGED << stops_cache, routes_cache, pq, best_costs, counter, result,
                          trail, cache, trace_vars, store_vars >>

\* "Handle same start and end stop"
FindSameStop ==
    /\ pc = "idle"
    /\ \E a \in StopIds, b \in StopIds, o \in Objectives :
          /\ Known(a, b)
          /\ a = b
          /\ Answer(ByStops(a, b, o), SameStopRoute(a), {})

\* "Method 1: Try direct connections if they exist"
FindDirect ==
    /\ pc = "idle"
    /\ \E a \in StopIds, b \in StopIds, o \in Objectives :
          /\ Known(a, b)
          /\ a # b
          /\ HasDirect(a, b)
          /\ Answer(ByStops(a, b, o),
                    _create_route_from_connection(
                        stops_cache[a][DirectIndex(stops_cache[a], b)], a, b),
                    {"direct_scan"})

\* "Method 2: Find routes that serve both stops"
FindSharedRoute ==
    /\ pc = "idle"
    /\ \E a \in StopIds, b \in StopIds, o \in Objectives :
          /\ Known(a, b)
          /\ a # b
          /\ ~HasDirect(a, b)
          /\ _find_route_serving_both_stops(a, b).found
          /\ Answer(ByStops(a, b, o), _find_route_serving_both_stops(a, b),
                    {"direct_scan", "shared_lookup"})

Seed(q, stages) ==
    LET s == InitSearch(q.start)
    IN  /\ pc' = "search"
        /\ query' = q
        /\ pq' = s.pq
        /\ best_costs' = s.best_costs
        /\ counter' = s.counter
        /\ result' = NoRoute
        /\ trail' = stages
        /\ UNCHANGED << stops_cache, routes_cache, cache, trace_vars, store_vars >>

\* "Method 3: Use proper Dijkstra to find multi-hop routes"
FindByDijkstra ==
    /\ pc = "idle"
    /\ \E a \in StopIds, b \in StopIds, o \in Objectives :
          /\ Known(a, b)
          /\ a # b
          /\ ~HasDirect(a, b)
          /\ ~_find_route_serving_both_stops(a, b).found
          /\ Seed(ByStops(a, b, o), {"direct_scan", "shared_lookup", "queue_search"})

\* a direct call of _dijkstra_pathfinding with its own transfer limit
CallDijkstra ==
    /\ pc = "idle"
    /\ \E a \in Stops, b \in Stops, o \in Objectives, m \in 0..MaxLimit :
          Seed(Query("dijkstra", a, b, o, m), {"queue_search"})

Current == SearchState(pq, best_costs, counter, "running", NoRoute)

CurrentKind == StepKind(Current, query.end, query.max_transfers)

\* a turn of the loop that goes on to the next turn
Continue ==
    /\ LET s == SearchStep(Current, query.end, query.optimize_for, query.max_transfers)
       IN  /\ pq' = s.pq
           /\ best_costs' = s.best_costs
           /\ counter' = s.counter
    /\ UNCHANGED << stops_cache, routes_cache, pc, query, result, trail, cache,
                    trace_vars, store_vars >>

\* the removed fallback fabricator (_create_fallback_metro_route) put back
ReturnedWithFallback(q, dijkstra_route) ==
    IF q.entry = "by_stops" /\ ~dijkstra_route.found
    THEN Itinerary(<< q.start, q.end >>,
                   << Segment("PURPLE_LINE", q.start, q.end, 5, 10, 1) >>, 6, 10, 0)
    ELSE dijkstra_route

\* what the caller gets once the queue search has returned: the itinerary,
\* or "Method 4: No route found - return None instead of creating fake routes"
Returned(q, dijkstra_route) ==
    IF dijkstra_route.found THEN dijkstra_route ELSE NoRoute

\* a turn of the loop that returns: the call's locals are gone
Finish ==
    /\ pc' = "done"
    /\ result' = Returned(query, SearchStep(Current, query.end, query.optimize_for,
                                            query.max_transfers).route)
    /\ pq' = {}
    /\ best_costs' = EmptyBest
    /\ counter' = 0
    /\ UNCHANGED << stops_cache, routes_cache, query, trail, cache, trace_vars, store_vars >>

SkipWorse == pc = "search" /\ CurrentKind = "skip" /\ Continue

FoundDestination == pc = "search" /\ CurrentKind = "found" /\ Finish

PruneTransfers == pc = "search" /\ CurrentKind = "prune" /\ Continue

ExploreConnections == pc = "search" /\ CurrentKind = "expand" /\ Continue

NoPathFound == pc = "search" /\ CurrentKind = "exhausted" /\ Finish

\* the caller has its answer; the next call may come
Return ==
    /\ pc = "done"
    /\ pc' = "idle"
    /\ query' = NoQuery
    /\ result' = NoRoute
    /\ trail' = {}
    /\ UNCHANGED << stops_cache, routes_cache, pq, best_costs, counter, cache,
                    trace_vars, store_vars >>

Next ==
    \/ FindUnknownStop
    \/ FindSameStop
    \/ FindDirect
    \/ FindSharedRoute
    \/ FindByDijkstra
    \/ CallDijkstra
    \/ SkipWorse
    \/ FoundDestination
    \/ PruneTransfers
    \/ ExploreConnections
    \/ NoPathFound
    \/ TraceUnknownStop
    \/ Return

Spec == Init /\ [][Next]_vars

\* ============================================ the coordinate entry point
WALKING_SPEED_KMH == 5
MAX_WALKING_DISTANCE_M == 500
MAX_SEARCH_RADIUS_KM == 50
NEAREST_LIMIT == 3
CALORIES_PER_WALKING_MINUTE == 4

\* float('inf')
Infinity == 1000 * 1000 * 1000

\* stop.location: stops 1 and 2 stand 300 units apart, stops 3 and 4 too,
\* 1500 units further on; stop 5 stands where stop 4 does (two stops of one
\* interchange) and the stops after it follow 150 units apart, so that more
\* than NEAREST_LIMIT stops can be within walking distance of a destination
StopPosition(s) ==
    IF s <= 4 THEN 1 + 1500 * ((s + 1) \div 2) + 300 * ((s + 1) % 2)
    ELSE 3301 + 150 * (s - 5)

\* the coordinates asked for: a start next to stop 1; two starts in one cell
\* of the cache key, the first 452 units from stop 2 (within walking distance)
\* and the second 453 units from it (no stop within walking distance); a
\* start outside the service area; one destination between stops 3 and 4
StartPoints == { 1576, 2253, 2254, 50001 }
EndPoints == { 3150 }

\* geodesic(...).kilometers, in millimetres
geodesic(a, b) == Abs(a - b) * 1106

\* the whole call of _dijkstra_with_transfers, as the caller sees it
_dijkstra_with_transfers(start_stop_id, end_stop_id, optimize_for) ==
    IF ~Known(start_stop_id, end_stop_id) THEN NoRoute
    ELSE IF start_stop_id = end_stop_id THEN SameStopRoute(start_stop_id)
    ELSE IF HasDirect(start_stop_id, end_stop_id)
         THEN _create_route_from_connection(
                  stops_cache[start_stop_id][DirectIndex(stops_cache[start_stop_id],
                                                         end_stop_id)],
                  start_stop_id, end_stop_id)
    ELSE IF _find_route_serving_both_stops(start_stop_id, end_stop_id).found
         THEN _find_route_serving_both_stops(start_stop_id, end_stop_id)
    ELSE Returned(ByStops(start_stop_id, end_stop_id, optimize_for),
                  _dijkstra_pathfinding(start_stop_id, end_stop_id, optimize_for,
                                        DEFAULT_MAX_TRANSFERS))

find_route_by_stops(start_stop_id, end_stop_id, optimize_for) ==
    IF ~Known(start_stop_id, end_stop_id) THEN NoRoute
    ELSE _dijkstra_with_transfers(start_stop_id, end_stop_id, optimize_for)

\* POST /route/stops: the status code of the answer
route_stops_endpoint(start_stop_id, end_stop_id, optimize_for) ==
    IF optimize_for \notin Objectives THEN 400
    ELSE IF start_stop_id \notin DOMAIN stops_cache THEN 400
    ELSE IF end_stop_id \notin DOMAIN stops_cache THEN 400
    ELSE IF ~find_route_by_stops(start_stop_id, end_stop_id, optimize_for).found THEN 404
    ELSE 200

\* POST /graph/algorithm-steps: the status code of the answer
get_algorithm_steps(start_stop_id, end_stop_id, optimize_for) ==
    IF optimize_for \notin Objectives THEN 400
    ELSE IF start_stop_id \notin DOMAIN stops_cache THEN 400
    ELSE IF end_stop_id \notin DOMAIN stops_cache THEN 400
    ELSE 200

\* stop.location.coordinates[0]: every stop stands on one meridian, and so do
\* the points find_optimal_route is asked about
Meridian == 0

\* geodesic((latitude, longitude), stop_coords).kilometers <=
\* settings.MAX_SEARCH_RADIUS_KM. The longitudes asked about other than
\* Meridian are a hundred degrees or more away from it, farther than the
\* radius; on the meridian the comparison is made in units of latitude, which
\* keeps the distance to a pole within the integers of the checker.
within_search_radius(latitude, longitude, s) ==
    /\ longitude = Meridian
    /\ Abs(latitude - StopPosition(s)) <= (MAX_SEARCH_RADIUS_KM * 1000000) \div 1106

\* an empty stops cache accepts no point
validate_coordinates_needs_stops(latitude, longitude) ==
    /\ -9000000 <= latitude /\ latitude <= 9000000
    /\ -18000000 <= longitude /\ longitude <= 18000000
    /\ \E s \in DOMAIN stops_cache : within_search_radius(latitude, longitude, s)

validate_coordinates(latitude, longitude) ==
    /\ -9000000 <= latitude /\ latitude <= 9000000
    /\ -18000000 <= longitude /\ longitude <= 18000000
    /\ \/ DOMAIN stops_cache = {}
       \/ \E s \in DOMAIN stops_cache : within_search_radius(latitude, longitude, s)

\* a stop at the maximum walking distance itself is too far
walking_minutes_below_maximum(distance) ==
    IF distance >= MAX_WALKING_DISTANCE_M * 1000 THEN Infinity
    ELSE (distance * 60) \div (WALKING_SPEED_KMH * 1000000)

\* the minutes both walking-time operations return for a distance (in
\* millimetres): float('inf') beyond the maximum walking distance, else
\* int((distance_km / settings.WALKING_SPEED_KMH) * 60)
walking_minutes(distance) ==
    IF distance > MAX_WALKING_DISTANCE_M * 1000 THEN Infinity
    ELSE (distance * 60) \div (WALKING_SPEED_KMH * 1000000)

\* <<walking minutes, distance>> from a coordinate to a stop
calculate_walking_time_from_coords(lat, stop_id) ==
    << walking_minutes(geodesic(lat, StopPosition(stop_id))),
       geodesic(lat, StopPosition(stop_id)) >>

\* walking minutes between two stops
calculate_walking_time(stop1_id, stop2_id) ==
    walking_minutes(geodesic(StopPosition(stop1_id), StopPosition(stop2_id)))

\* the place of a stop in the order in which the stop documents were loaded
LoadPosition(s) == CHOOSE i \in 1..Len(db.order) : db.order[i] = s

\* sorted by distance, stops at one distance in the order they were loaded
NearerByLoadOrder(lat, s, t) ==
    \/ geodesic(lat, StopPosition(s)) < geodesic(lat, StopPosition(t))
    \/ /\ geodesic(lat, StopPosition(s)) = geodesic(lat, StopPosition(t))
       /\ LoadPosition(s) <= LoadPosition(t)

\* sorted by stop id alone
NearerById(lat, s, t) == s <= t

\* distances.sort() on the tuples (distance, stop_id, name): by distance, then
\* by stop id
Nearer(lat, s, t) ==
    \/ geodesic(lat, StopPosition(s)) < geodesic(lat, StopPosition(t))
    \/ geodesic(lat, StopPosition(s)) = geodesic(lat, StopPosition(t)) /\ s <= t

RECURSIVE SortByDistance(_, _)
SortByDistance(lat, S) ==
    IF S = {} THEN << >>
    ELSE LET s == CHOOSE x \in S : \A y \in S : Nearer(lat, x, y)
         IN  << s >> \o SortByDistance(lat, S \ {s})

\* distances[:limit]: the first limit elements, or all but the last -limit
SliceTo(seq, limit) ==
    IF limit >= 0
    THEN SubSeq(seq, 1, IF Len(seq) < limit THEN Len(seq) ELSE limit)
    ELSE SubSeq(seq, 1, Len(seq) + limit)

find_nearest_stops(latitude, limit) ==
    LET near   == { s \in DOMAIN stops_cache :
                      geodesic(latitude, StopPosition(s)) <= MAX_WALKING_DISTANCE_M * 1000 }
        sorted == SortByDistance(latitude, near)
    IN  SliceTo(sorted, limit)

\* one clause of a route summary; for a walk clause `count` is its minutes,
\* for a "Take ..." clause the number of segments grouped
SummaryClause(kind, route_id, count) ==
    [kind |-> kind, route_id |-> route_id, count |-> count]

\* route_summary as the constructors of the pathfinder set it: only the
\* same-stop itinerary has no segments
route_summary_as_built(route) ==
    IF Len(route.segments) = 0
    THEN << SummaryClause("Already at destination", "None", 0) >>
    ELSE << SummaryClause("Route with", "None", Len(route.segments)) >>

\* the itinerary a pair of stops gave, with the walks to and from it added
WithWalking(route, start_walk, end_walk) ==
    [found |-> TRUE, path |-> route.path, segments |-> route.segments,
     total_time |-> route.total_time + start_walk[1] + end_walk[1],
     total_cost |-> route.total_cost, transfers |-> route.transfers,
     walking_time |-> start_walk[1] + end_walk[1],
     total_distance |-> start_walk[2] + end_walk[2],
     start_walking_time |-> 0, end_walking_time |-> 0, calories_burned |-> 0,
     route_summary |-> route_summary_as_built(route)]

_calculate_total_cost_by_time(route, optimize_for) ==
    route.total_time + route.walking_time

_calculate_total_cost(route, optimize_for) ==
    IF optimize_for = "time" THEN route.total_time + route.walking_time
    ELSE IF optimize_for = "cost" THEN route.total_cost
    ELSE route.transfers

\* "Try all combinations of start and end stops", from combination k on
RECURSIVE TryPairs(_, _, _, _, _, _, _, _)
TryPairs(start_stops, end_stops, k, start_lat, end_lat, optimize_for, best_route, best_cost) ==
    IF k > Len(start_stops) * Len(end_stops) THEN best_route
    ELSE LET start_stop == start_stops[((k - 1) \div Len(end_stops)) + 1]
             end_stop   == end_stops[((k - 1) % Len(end_stops)) + 1]
             route      == _dijkstra_with_transfers(start_stop, end_stop, optimize_for)
             walked     == WithWalking(route,
                               calculate_walking_time_from_coords(start_lat, start_stop),
                               calculate_walking_time_from_coords(end_lat, end_stop))
         IN  IF route.found /\ _calculate_total_cost(walked, optimize_for) < best_cost
             THEN TryPairs(start_stops, end_stops, k + 1, start_lat, end_lat, optimize_for,
                           walked, _calculate_total_cost(walked, optimize_for))
             ELSE TryPairs(start_stops, end_stops, k + 1, start_lat, end_lat, optimize_for,
                           best_route, best_cost)

find_optimal_route(start_lat, end_lat, optimize_for) ==
    IF ~validate_coordinates(start_lat, Meridian) THEN NoRoute
    ELSE IF ~validate_coordinates(end_lat, Meridian) THEN NoRoute
    ELSE LET start_stops == find_nearest_stops(start_lat, NEAREST_LIMIT)
             end_stops   == find_nearest_stops(end_lat, NEAREST_LIMIT)
         IN  IF Len(start_stops) = 0 \/ Len(end_stops) = 0 THEN NoRoute
             ELSE TryPairs(start_stops, end_stops, 1, start_lat, end_lat, optimize_for,
                           NoRoute, Infinity)

WalkingSegment(from_stop, to_stop, time) ==
    Segment("WALKING", from_stop, to_stop, time, 0, 0)

_add_walking_directions(route, start_lat, end_lat) ==
    IF Len(route.segments) = 0 THEN route
    ELSE LET first_stop_id == route.segments[1].from_stop
             last_stop_id  == route.segments[Len(route.segments)].to_stop
             start_walking_time ==
                 calculate_walking_time_from_coords(start_lat, first_stop_id)[1]
             end_walking_time ==
                 calculate_walking_time_from_coords(end_lat, last_stop_id)[1]
         IN  [route EXCEPT
                !.start_walking_time = start_walking_time,
                !.end_walking_time = end_walking_time,
                !.segments =
                    (IF start_walking_time > 0
                     THEN << WalkingSegment("START", first_stop_id, start_walking_time) >>
                     ELSE << >>)
                    \o @ \o
                    (IF end_walking_time > 0
                     THEN << WalkingSegment(last_stop_id, "END", end_walking_time) >>
                     ELSE << >>)]

\* the "Take ..." clauses: consecutive segments of one route id make one clause
RECURSIVE TakeClauses(_, _, _, _)
TakeClauses(segments, i, current_route, segment_count) ==
    LET previous == IF current_route # "None"
                    THEN << SummaryClause("Take", current_route, segment_count) >>
                    ELSE << >>
    IN  IF i > Len(segments) THEN previous
        ELSE IF segments[i].route_id # current_route
             THEN previous \o TakeClauses(segments, i + 1, segments[i].route_id, 1)
             ELSE TakeClauses(segments, i + 1, current_route, segment_count + 1)

\* the summary, clause by clause (the clauses are joined with an arrow)
_generate_route_summary(route) ==
    IF Len(route.segments) = 0
    THEN << SummaryClause("No route found", "None", 0) >>
    ELSE (IF route.start_walking_time > 0
          THEN << SummaryClause("Walk to stop", "WALKING", route.start_walking_time) >>
          ELSE << >>)
         \o TakeClauses(route.segments, 1, "None", 0)
         \o (IF route.end_walking_time > 0
             THEN << SummaryClause("Walk to destination", "WALKING",
                                   route.end_walking_time) >>
             ELSE << >>)

\* the summary first, then the calories, then the walking legs
enhance_route(route, start_lat, end_lat) ==
    _add_walking_directions(
        [route EXCEPT !.route_summary = _generate_route_summary(route),
                      !.calories_burned = route.walking_time * CALORIES_PER_WALKING_MINUTE],
        start_lat, end_lat)

\* f"{lat:.4f}": the coordinate rounded to four decimals (ten units)
Round4(lat) == (lat + 5) \div 10

cache_key(start_lat, end_lat, optimize_for) ==
    << Round4(start_lat), Round4(end_lat), optimize_for >>

\* find_route past the cache check: search, then enhance what was found
ComputeRoute(start_lat, end_lat, optimize_for) ==
    LET route == find_optimal_route(start_lat, end_lat, optimize_for)
    IN  IF route.found THEN enhance_route(route, start_lat, end_lat) ELSE NoRoute

ByCoordinates(start_lat, end_lat, optimize_for) ==
    Query("find_route", start_lat, end_lat, optimize_for, DEFAULT_MAX_TRANSFERS)

\* the snapshots the coordinate queries run against: MaxConns connections
RouteSnapshots ==
    { [s \in Stops |-> ConnsOf(SelectMask(ConnPool, mask, 1), s)] :
        mask \in { m \in SUBSET (1..Len(ConnPool)) : Cardinality(m) = MaxConns } }

InitRoute ==
    /\ stops_cache \in RouteSnapshots
    /\ routes_cache \in RouteStores
    /\ pc = "idle"
    /\ query = NoQuery
    /\ pq = {}
    /\ best_costs = EmptyBest
    /\ counter = 0
    /\ result = NoRoute
    /\ trail = {}
    /\ cache = EmptyCache
    /\ visited = {}
    /\ step_count = 0
    /\ steps = << >>
    /\ db = [stops |-> stops_cache, routes |-> routes_cache]
    /\ loader = NoLoad
    /\ pending = << >>

\* "Check cache first": a hit returns the stored itinerary
FindRouteCached ==
    /\ pc = "idle"
    /\ \E start_lat \in StartPoints, end_lat \in EndPoints, o \in Objectives :
          /\ cache_key(start_lat, end_lat, o) \in DOMAIN cache
          /\ pc' = "done"
          /\ query' = ByCoordinates(start_lat, end_lat, o)
          /\ result' = cache[cache_key(start_lat, end_lat, o)]
          /\ trail' = {"cache_hit"}
          /\ UNCHANGED << stops_cache, routes_cache, pq, best_costs, counter, cache,
                          trace_vars, store_vars >>

\* a miss that finds a route: "Cache enhanced result"
FindRouteStored ==
    /\ pc = "idle"
    /\ \E start_lat \in StartPoints, end_lat \in EndPoints, o \in Objectives :
          LET route == ComputeRoute(start_lat, end_lat, o)
          IN  /\ cache_key(start_lat, end_lat, o) \notin DOMAIN cache
              /\ route.found
              /\ pc' = "done"
              /\ query' = ByCoordinates(start_lat, end_lat, o)
              /\ result' = route
              /\ cache' = (cache_key(start_lat, end_lat, o) :> route) @@ cache
              /\ trail' = {"cache_miss"}
              /\ UNCHANGED << stops_cache, routes_cache, pq, best_costs, counter,
                              trace_vars, store_vars >>

\* a miss that finds nothing: None is returned and nothing is stored
FindRouteNone ==
    /\ pc = "idle"
    /\ \E start_lat \in StartPoints, end_lat \in EndPoints, o \in Objectives :
          /\ cache_key(start_lat, end_lat, o) \notin DOMAIN cache
          /\ ~ComputeRoute(start_lat, end_lat, o).found
          /\ pc' = "done"
          /\ query' = ByCoordinates(start_lat, end_lat, o)
          /\ result' = NoRoute
          /\ trail' = {"cache_miss"}
          /\ UNCHANGED << stops_cache, routes_cache, pq, best_costs, counter, cache,
                          trace_vars, store_vars >>

\* find_route_by_stops, the whole call at once
FindRouteByStops ==
    /\ pc = "idle"
    /\ \E a \in StopIds, b \in StopIds, o \in Objectives :
          /\ pc' = "done"
          /\ query' = ByStops(a, b, o)
          /\ result' = find_route_by_stops(a, b, o)
          /\ trail' = {"by_stops"}
          /\ UNCHANGED << stops_cache, routes_cache, pq, best_costs, counter, cache,
                          trace_vars, store_vars >>

NextRoute ==
    \/ FindRouteCached
    \/ FindRouteStored
    \/ FindRouteNone
    \/ FindRouteByStops
    \/ Return

SpecRoute == InitRoute /\ [][NextRoute]_vars

\* ============================================ the execution-trace variant
\* get_algorithm_execution_steps: "while pq and step_count < 100"
MAX_TRACE_STEPS == 100

\* the largest number of parallel connections into stop 5 of the fan graphs
MaxFan == 21

\* the parallel connections out of each of the first three stops of a fan graph
HubFan == MAX_TRACE_STEPS \div 4 - 1

Link(to_stop_id, route_id, time, cost) ==
    [to_stop_id |-> to_stop_id, route_id |-> route_id, time |-> time, cost |-> cost]

\* a line of stops, every connection on another route than the one before:
\* the last stop but one is reached with DEFAULT_MAX_TRANSFERS transfers
ChainStops == 1..(DEFAULT_MAX_TRANSFERS + 3)

ChainGraph ==
    [s \in ChainStops |->
        IF s + 1 \in ChainStops
        THEN << Link(s + 1, IF s % 2 = 1 THEN "R1" ELSE "R3", 1, 1) >>
        ELSE << >>]

\* HubFan parallel connections 1 -> 2, 2 -> 3 and 3 -> 4, n parallel
\* connections 4 -> 5, then 5 -> 6 -> 7; stop 8 stands apart
FanGraph(n) ==
    [s \in 1..8 |->
        CASE s \in 1..3 -> [k \in 1..HubFan |-> Link(s + 1, "R1", 1, 1)]
          [] s = 4 -> [k \in 1..n |-> Link(5, "R1", 1, 1)]
          [] s \in 5..6 -> << Link(s + 1, "R1", 1, 1) >>
          [] OTHER -> << >>]

TraceGraphs ==
    RouteSnapshots \cup { ChainGraph } \cup { FanGraph(n) : n \in (MaxFan - 4)..MaxFan }

\* one record of the trace: its number, its action, list(visited) and the
\* found_destination flag
StepRecord(step, action, seen, found) ==
    [step |-> step, action |-> action, visited |-> seen, found_destination |-> found]

\* dummy_segment: "Create dummy segment for tracking"
DummySegment(connection, current_stop) ==
    [route_id |-> connection.route_id, from_stop |-> current_stop,
     to_stop |-> connection.to_stop_id, time |-> connection.time,
     cost |-> connection.cost]

\* the for loop over the connections of the popped stop, from position i:
\* every neighbour not in the path is pushed; `added` counts neighbors_added
RECURSIVE TraceExplore(_, _, _, _, _, _, _)
TraceExplore(q, cnt, added, e, conns, i, optimize_for) ==
    IF i > Len(conns) THEN [pq |-> q, counter |-> cnt, added |-> added]
    ELSE IF InSeq(conns[i].to_stop_id, e.path)
         THEN TraceExplore(q, cnt, added, e, conns, i + 1, optimize_for)
    ELSE LET connection    == conns[i]
             penalty       == BoardingPenalty(e.segments, connection)
             new_time      == e.total_time + connection.time + penalty
             new_cost      == e.total_cost + connection.cost
             new_transfers == e.transfers
                              + (IF IsTransfer(e.segments, connection) THEN 1 ELSE 0)
             priority      == Priority(optimize_for, new_time, new_cost, new_transfers)
             pushed        == Entry(priority, cnt, connection.to_stop_id,
                                    Append(e.path, connection.to_stop_id),
                                    Append(e.segments, DummySegment(connection, e.stop)),
                                    new_transfers, new_time, new_cost)
         IN  TraceExplore(q \cup { pushed }, cnt + 1, added + 1, e, conns, i + 1,
                          optimize_for)

\* "Check final state after loop ends"
AfterLoop(recs, count, q, seen) ==
    IF count >= MAX_TRACE_STEPS
    THEN IF q # {}
         THEN Append(recs, StepRecord(count, "max_steps_reached", seen, FALSE))
         ELSE Append(recs, StepRecord(count, "no_route_found", seen, FALSE))
    ELSE IF q = {}
         THEN Append(recs, StepRecord(count, "no_route_found", seen, FALSE))
         ELSE recs

\* the loop condition
TraceLoopRuns == pq # {} /\ step_count < MAX_TRACE_STEPS

InitTrace ==
    /\ stops_cache \in TraceGraphs
    /\ routes_cache \in RouteStores
    /\ pc = "idle"
    /\ query = NoQuery
    /\ pq = {}
    /\ best_costs = EmptyBest
    /\ counter = 0
    /\ result = NoRoute
    /\ trail = {}
    /\ cache = EmptyCache
    /\ visited = {}
    /\ step_count = 0
    /\ steps = << >>
    /\ db = [stops |-> stops_cache, routes |-> routes_cache]
    /\ loader = NoLoad
    /\ pending = << >>

\* the seed of the queue and the "initialize" record
TraceInitialize ==
    /\ pc = "idle"
    /\ \E a \in DOMAIN stops_cache, b \in DOMAIN stops_cache, o \in Objectives :
          /\ pc' = "trace"
          /\ query' = TraceQuery(a, b, o)
          /\ pq' = { Entry(0, 0, a, << a >>, << >>, 0, 0, 0) }
          /\ counter' = 1
          /\ visited' = {}
          /\ steps' = << StepRecord(0, "initialize", {}, FALSE) >>
          /\ step_count' = 1
          /\ UNCHANGED << stops_cache, routes_cache, best_costs, result, trail, cache,
                          store_vars >>

\* "Skip if already visited"
TraceSkipVisited ==
    /\ pc = "trace"
    /\ TraceLoopRuns
    /\ PopMin(pq).stop \in visited
    /\ pq' = pq \ { PopMin(pq) }
    /\ steps' = Append(steps, StepRecord(step_count, "skip_visited", visited, FALSE))
    /\ step_count' = step_count + 1
    /\ UNCHANGED << stops_cache, routes_cache, pc, query, best_costs, counter, result,
                    trail, cache, visited, store_vars >>

\* "Check if destination found": the record, the break, and the check after
\* the loop
TraceFoundDestination ==
    /\ pc = "trace"
    /\ TraceLoopRuns
    /\ PopMin(pq).stop \notin visited
    /\ PopMin(pq).stop = query.end
    /\ pc' = "done"
    /\ visited' = visited \cup { PopMin(pq).stop }
    /\ steps' = AfterLoop(Append(steps, StepRecord(step_count, "found_destination",
                                                   visited \cup { PopMin(pq).stop },
                                                   TRUE)),
                          step_count, pq \ { PopMin(pq) },
                          visited \cup { PopMin(pq).stop })
    /\ pq' = {}
    /\ counter' = 0
    /\ UNCHANGED << stops_cache, routes_cache, query, best_costs, result, trail, cache,
                    step_count, store_vars >>

\* "Process current node" and "Explore neighbors"
TraceProcessNode ==
    /\ pc = "trace"
    /\ TraceLoopRuns
    /\ PopMin(pq).stop \notin visited
    /\ PopMin(pq).stop # query.end
    /\ LET e       == PopMin(pq)
           seen    == visited \cup { e.stop }
           process == StepRecord(step_count, "process_node", seen, FALSE)
           grown   == TraceExplore(pq \ { e }, counter, 0, e, stops_cache[e.stop], 1,
                                   query.optimize_for)
       IN  /\ visited' = seen
           /\ pq' = grown.pq
           /\ counter' = grown.counter
           /\ IF grown.added > 0
              THEN /\ steps' = Append(Append(steps, process),
                                      StepRecord(step_count + 1, "add_neighbors", seen,
                                                 FALSE))
                   /\ step_count' = step_count + 2
              ELSE /\ steps' = Append(steps, process)
                   /\ step_count' = step_count + 1
    /\ UNCHANGED << stops_cache, routes_cache, pc, query, best_costs, result, trail,
                    cache, store_vars >>

\* the loop condition fails: the check after the loop, and "return steps"
TraceLoopExit ==
    /\ pc = "trace"
    /\ ~TraceLoopRuns
    /\ pc' = "done"
    /\ steps' = AfterLoop(steps, step_count, pq, visited)
    /\ pq' = {}
    /\ counter' = 0
    /\ UNCHANGED << stops_cache, routes_cache, query, best_costs, result, trail, cache,
                    visited, step_count, store_vars >>

\* the caller has the trace; the next call may come
TraceReturn ==
    /\ pc = "done"
    /\ pc' = "idle"
    /\ query' = NoQuery
    /\ visited' = {}
    /\ step_count' = 0
    /\ steps' = << >>
    /\ UNCHANGED << stops_cache, routes_cache, pq, best_costs, counter, result, trail,
                    cache, store_vars >>

NextTrace ==
    \/ TraceUnknownStop
    \/ TraceInitialize
    \/ TraceSkipVisited
    \/ TraceFoundDestination
    \/ TraceProcessNode
    \/ TraceLoopExit
    \/ TraceReturn

SpecTrace == InitTrace /\ [][NextTrace]_vars

\* ================================================== loading the graph store
\* the contents the backing store may hold: the first or the last MaxConns
\* connections of the pool, with or without the route documents
StoreSnapshots ==
    { [s \in Stops |-> ConnsOf(SelectMask(ConnPool, mask, 1), s)] :
        mask \in { 1..MaxConns, (Len(ConnPool) - MaxConns + 1)..Len(ConnPool) } }

Stores == { [stops |-> g, routes |-> r] : g \in StoreSnapshots, r \in RouteStores }

\* self.stops_cache: Dict[str, Stop] = {}
EmptyDict == << >>

\* the stops cache once the first k stop documents of the cursor are inserted
StopsFetched(k) == [s \in 1..k |-> db.stops[s]]

\* an error handler that logs and leaves the caches as they stand
OnLoadErrorKeepsCaches ==
    [stops_cache |-> stops_cache, routes_cache |-> routes_cache, raised |-> FALSE]

\* "except Exception": the error is logged, both caches are rebound to empty
\* dicts and the call returns
OnLoadError == [stops_cache |-> EmptyDict, routes_cache |-> EmptyDict, raised |-> FALSE]

\* the state of a load_graph_data call: where it stands, the stop documents it
\* has inserted, the caches as they were when it began, and how it ended
Load(at, fetched, previous, failed, raised) ==
    [pc |-> at, fetched |-> fetched, previous |-> previous, failed |-> failed,
     raised |-> raised]

\* every stop a cached stop connects to is cached too: a search over the
\* cache does not look up a stop that is missing
CacheClosed ==
    \A s \in DOMAIN stops_cache : \A i \in 1..Len(stops_cache[s]) :
        stops_cache[s][i].to_stop_id \in DOMAIN stops_cache

InitLoad ==
    /\ stops_cache = EmptyDict
    /\ routes_cache = EmptyDict
    /\ pc = "idle"
    /\ query = NoQuery
    /\ pq = {}
    /\ best_costs = EmptyBest
    /\ counter = 0
    /\ result = NoRoute
    /\ trail = {}
    /\ cache = EmptyCache
    /\ visited = {}
    /\ step_count = 0
    /\ steps = << >>
    /\ db \in Stores
    /\ loader = NoLoad
    /\ pending = << >>

\* the documents of the backing store are replaced (loader not running)
StoreChanges ==
    /\ loader.pc = "idle"
    /\ \E d \in Stores \ { db } : db' = d
    /\ UNCHANGED << stops_cache, routes_cache, pc, query, pq, best_costs, counter, result,
                    trail, cache, trace_vars, loader, pending >>

\* load_graph_data up to its first fetch: "self.stops_cache.clear()", then
\* the call waits for the stop documents
LoadBegin ==
    /\ loader.pc = "idle"
    /\ stops_cache' = EmptyDict
    /\ loader' = Load("stops", 0, << stops_cache, routes_cache >>, FALSE, FALSE)
    /\ UNCHANGED << routes_cache, pc, query, pq, best_costs, counter, result, trail,
                    cache, trace_vars, db, pending >>

\* a batch of stop documents arrives and is inserted; after the last one
\* "self.routes_cache.clear()", then the call waits for the route documents
LoadStops ==
    /\ loader.pc = "stops"
    /\ \E k \in (loader.fetched + 1)..Len(db.stops) :
          /\ stops_cache' = StopsFetched(k)
          /\ IF k = Len(db.stops)
             THEN /\ routes_cache' = EmptyDict
                  /\ loader' = [loader EXCEPT !.pc = "routes", !.fetched = k]
             ELSE /\ routes_cache' = routes_cache
                  /\ loader' = [loader EXCEPT !.fetched = k]
    /\ UNCHANGED << pc, query, pq, best_costs, counter, result, trail, cache,
                    trace_vars, db, pending >>

\* the route documents arrive and are inserted; the call returns
LoadRoutes ==
    /\ loader.pc = "routes"
    /\ routes_cache' = db.routes
    /\ loader' = [loader EXCEPT !.pc = "idle"]
    /\ UNCHANGED << stops_cache, pc, query, pq, best_costs, counter, result, trail,
                    cache, trace_vars, db, pending >>

\* reading the stop documents fails after k of them were inserted, or reading
\* the route documents fails
LoadFails ==
    /\ loader.pc \in { "stops", "routes" }
    /\ \E k \in loader.fetched..Len(db.stops) :
          /\ loader.pc = "routes" => k = loader.fetched
          /\ loader.pc = "stops" => k < Len(db.stops)
          /\ stops_cache' = OnLoadError.stops_cache
          /\ routes_cache' = OnLoadError.routes_cache
          /\ loader' = [loader EXCEPT !.pc = "idle", !.fetched = k, !.failed = TRUE,
                                      !.raised = OnLoadError.raised]
    /\ UNCHANGED << pc, query, pq, best_costs, counter, result, trail, cache,
                    trace_vars, db, pending >>

\* "db = await get_database()" raises: the same handler runs
LoadFailsConnecting ==
    /\ loader.pc = "idle"
    /\ stops_cache' = OnLoadError.stops_cache
    /\ routes_cache' = OnLoadError.routes_cache
    /\ loader' = Load("idle", 0, << stops_cache, routes_cache >>, TRUE,
                      OnLoadError.raised)
    /\ UNCHANGED << pc, query, pq, best_costs, counter, result, trail, cache,
                    trace_vars, db, pending >>

\* find_route_by_stops while the cache is not empty (an empty cache makes the
\* call load the graph first) and closed
QueryByStops ==
    /\ DOMAIN stops_cache # {}
    /\ CacheClosed
    /\ FindRouteByStops

NextLoad ==
    \/ StoreChanges
    \/ LoadBegin
    \/ LoadStops
    \/ LoadRoutes
    \/ LoadFails
    \/ LoadFailsConnecting
    \/ QueryByStops
    \/ Return

SpecLoad == InitLoad /\ [][NextLoad]_vars

\* ============================================= find_route calls in flight
\* A find_route call runs on the event loop until its search reaches the
\* lookup in the store ("Method 2", "async for route_doc in
\* db.routes.aggregate(pipeline)"); there it waits and other calls run.

\* the largest number of calls waiting at the same time
MaxPending == 2

\* the starts asked for while calls wait: one next to stop 1, one with no stop
\* within walking distance
WaitingStarts == { 1576, 2254 }

\* the objective they ask for
WaitingObjectives == { "time" }

\* the locals of find_optimal_route, about to try combination k
Call(start_lat, end_lat, optimize_for, start_stops, end_stops) ==
    [start |-> start_lat, end |-> end_lat, optimize_for |-> optimize_for,
     start_stops |-> start_stops, end_stops |-> end_stops, k |-> 1,
     best_route |-> NoRoute, best_cost |-> Infinity]

PairAt(call) ==
    << call.start_stops[((call.k - 1) \div Len(call.end_stops)) + 1],
       call.end_stops[((call.k - 1) % Len(call.end_stops)) + 1] >>

\* the loop over the combinations is over
Finished(call) == call.k > Len(call.start_stops) * Len(call.end_stops)

\* _dijkstra_with_transfers gets as far as the lookup in the store
ReachesLookup(start_stop_id, end_stop_id) ==
    /\ Known(start_stop_id, end_stop_id)
    /\ start_stop_id # end_stop_id
    /\ ~HasDirect(start_stop_id, end_stop_id)

\* _dijkstra_with_transfers from the answer of the store on
AfterLookup(start_stop_id, end_stop_id, optimize_for) ==
    IF _find_route_serving_both_stops(start_stop_id, end_stop_id).found
    THEN _find_route_serving_both_stops(start_stop_id, end_stop_id)
    ELSE Returned(ByStops(start_stop_id, end_stop_id, optimize_for),
                  _dijkstra_pathfinding(start_stop_id, end_stop_id, optimize_for,
                                        DEFAULT_MAX_TRANSFERS))

\* the body of the loop once the combination has its route: "if route:"
Considered(call, route) ==
    LET walked == WithWalking(route,
                      calculate_walking_time_from_coords(call.start, PairAt(call)[1]),
                      calculate_walking_time_from_coords(call.end, PairAt(call)[2]))
    IN  IF route.found /\ _calculate_total_cost(walked, call.optimize_for) < call.best_cost
        THEN [call EXCEPT !.k = @ + 1, !.best_route = walked,
                          !.best_cost = _calculate_total_cost(walked, call.optimize_for)]
        ELSE [call EXCEPT !.k = @ + 1]

\* the loop runs on until a combination waits for the store or none is left
RECURSIVE RunUntilLookup(_)
RunUntilLookup(call) ==
    IF Finished(call) THEN call
    ELSE IF ReachesLookup(PairAt(call)[1], PairAt(call)[2]) THEN call
    ELSE RunUntilLookup(
             Considered(call, _dijkstra_with_transfers(PairAt(call)[1], PairAt(call)[2],
                                                       call.optimize_for)))

\* find_optimal_route from its first line to the first wait, or to its end
BeginSearch(start_lat, end_lat, optimize_for) ==
    LET start_stops == find_nearest_stops(start_lat, NEAREST_LIMIT)
        end_stops   == find_nearest_stops(end_lat, NEAREST_LIMIT)
    IN  IF \/ ~validate_coordinates(start_lat, Meridian)
           \/ ~validate_coordinates(end_lat, Meridian)
           \/ Len(start_stops) = 0
           \/ Len(end_stops) = 0
        THEN Call(start_lat, end_lat, optimize_for, << >>, << >>)
        ELSE RunUntilLookup(Call(start_lat, end_lat, optimize_for, start_stops, end_stops))

\* the store has answered the waiting call: the rest of that combination,
\* then the loop again
ResumeSearch(call) ==
    RunUntilLookup(
        Considered(call, AfterLookup(PairAt(call)[1], PairAt(call)[2], call.optimize_for)))

\* what find_route returns once find_optimal_route is over
Enhanced(call) ==
    IF call.best_route.found
    THEN enhance_route(call.best_route, call.start, call.end)
    ELSE NoRoute

\* "if route: ... self.cache[cache_key] = route"
CacheStored(call) ==
    IF call.best_route.found
    THEN (cache_key(call.start, call.end, call.optimize_for) :> Enhanced(call)) @@ cache
    ELSE cache

\* startup is over: the caches hold the documents of the store
InitCache ==
    /\ db \in Stores
    /\ stops_cache = db.stops
    /\ routes_cache = db.routes
    /\ pc = "idle"
    /\ query = NoQuery
    /\ pq = {}
    /\ best_costs = EmptyBest
    /\ counter = 0
    /\ result = NoRoute
    /\ trail = {}
    /\ cache = EmptyCache
    /\ visited = {}
    /\ step_count = 0
    /\ steps = << >>
    /\ loader = NoLoad
    /\ pending = << >>

\* a call misses the cache and its search waits for the store
FindRouteWaits ==
    /\ pc = "idle"
    /\ Len(pending) < MaxPending
    /\ \E start_lat \in WaitingStarts, end_lat \in EndPoints, o \in WaitingObjectives :
          /\ cache_key(start_lat, end_lat, o) \notin DOMAIN cache
          /\ ~Finished(BeginSearch(start_lat, end_lat, o))
          /\ pending' = Append(pending, BeginSearch(start_lat, end_lat, o))
    /\ UNCHANGED << stops_cache, routes_cache, pc, query, pq, best_costs, counter, result,
                    trail, cache, trace_vars, db, loader >>

\* a call misses the cache and its search never waits: it returns at once
FindRouteStraight ==
    /\ pc = "idle"
    /\ \E start_lat \in WaitingStarts, end_lat \in EndPoints, o \in WaitingObjectives :
          /\ cache_key(start_lat, end_lat, o) \notin DOMAIN cache
          /\ Finished(BeginSearch(start_lat, end_lat, o))
          /\ pc' = "done"
          /\ query' = ByCoordinates(start_lat, end_lat, o)
          /\ result' = Enhanced(BeginSearch(start_lat, end_lat, o))
          /\ cache' = CacheStored(BeginSearch(start_lat, end_lat, o))
          /\ trail' = {"cache_miss"}
    /\ UNCHANGED << stops_cache, routes_cache, pq, best_costs, counter, trace_vars,
                    store_vars >>

\* the store answers a waiting call, whose search then waits again
FindRouteWaitsAgain ==
    /\ pc = "idle"
    /\ \E i \in 1..Len(pending) :
          /\ ~Finished(ResumeSearch(pending[i]))
          /\ pending' = [pending EXCEPT ![i] = ResumeSearch(pending[i])]
    /\ UNCHANGED << stops_cache, routes_cache, pc, query, pq, best_costs, counter, result,
                    trail, cache, trace_vars, db, loader >>

\* the store answers a waiting call, whose search then ends: the itinerary
\* is enhanced, stored and returned
FindRouteResumes ==
    /\ pc = "idle"
    /\ \E i \in 1..Len(pending) :
          /\ Finished(ResumeSearch(pending[i]))
          /\ pc' = "done"
          /\ query' = ByCoordinates(pending[i].start, pending[i].end,
                                    pending[i].optimize_for)
          /\ result' = Enhanced(ResumeSearch(pending[i]))
          /\ cache' = CacheStored(ResumeSearch(pending[i]))
          /\ trail' = {"cache_miss"}
          /\ pending' = SubSeq(pending, 1, i - 1) \o SubSeq(pending, i + 1, Len(pending))
    /\ UNCHANGED << stops_cache, routes_cache, pq, best_costs, counter, trace_vars,
                    db, loader >>

\* load_graph_data from its first line to its last while every call waits
GraphReloaded ==
    /\ pc = "idle"
    /\ << stops_cache, routes_cache >> # << db.stops, db.routes >>
    /\ stops_cache' = db.stops
    /\ routes_cache' = db.routes
    /\ UNCHANGED << pc, query, pq, best_costs, counter, result, trail, cache,
                    trace_vars, store_vars >>

NextCache ==
    \/ FindRouteCached
    \/ FindRouteWaits
    \/ FindRouteStraight
    \/ FindRouteWaitsAgain
    \/ FindRouteResumes
    \/ StoreChanges
    \/ GraphReloaded
    \/ Return

SpecCache == InitCache /\ [][NextCache]_vars

\* ===================================== find_route across a larger network
\* Eight stops on seven routes: a fast line 1 -> 2 -> 3 -> 4 -> 5 -> 8 that
\* changes route once, and slower ways into stops 3, 4 and 5 on other routes.
DetourStops == 1..8

\* the minutes of the direct connection from stop 1 to stop 3: a few, or
\* more than TRANSFER_WEIGHT
DirectTimes == { 8, 130 }

DetourPool(direct_time) ==
    << Conn(1, 2, "R1", 1, 1),
       Conn(2, 3, "R2", 1, 1),
       Conn(3, 4, "R2", 1, 1),
       Conn(4, 5, "R2", 1, 1),
       Conn(5, 8, "R2", 1, 1),
       Conn(1, 3, "R3", direct_time, 1),
       Conn(1, 6, "R4", 1, 1),
       Conn(6, 4, "R5", 6, 1),
       Conn(6, 7, "R6", 1, 1),
       Conn(7, 5, "R7", 1, 1) >>

\* the network, whole or with one of its connections closed
DetourMasks ==
    { (1..Len(DetourPool(0))) \ closed :
        closed \in { {} } \cup { {i} : i \in 1..Len(DetourPool(0)) } }

DetourGraphs ==
    { [s \in DetourStops |-> ConnsOf(SelectMask(DetourPool(t), mask, 1), s)] :
        t \in DirectTimes, mask \in DetourMasks }

\* a point within walking distance of stop 1 alone, and a point within
\* walking distance of stop 8 alone
DetourStarts == { 1100 }
DetourEnds == { 4150 }

InitDetour ==
    /\ stops_cache \in DetourGraphs
    /\ routes_cache = EmptyDict
    /\ pc = "idle"
    /\ query = NoQuery
    /\ pq = {}
    /\ best_costs = EmptyBest
    /\ counter = 0
    /\ result = NoRoute
    /\ trail = {}
    /\ cache = EmptyCache
    /\ visited = {}
    /\ step_count = 0
    /\ steps = << >>
    /\ db = [stops |-> stops_cache, routes |-> EmptyDict]
    /\ loader = NoLoad
    /\ pending = << >>

\* RouteOptimizer.find_route, the whole call: the cached itinerary on a hit,
\* else the enhanced answer of find_optimal_route, stored when there is one
FindRouteAcross ==
    /\ pc = "idle"
    /\ \E start_lat \in DetourStarts, end_lat \in DetourEnds, o \in Objectives :
          LET key   == cache_key(start_lat, end_lat, o)
              route == IF key \in DOMAIN cache THEN cache[key]
                       ELSE ComputeRoute(start_lat, end_lat, o)
          IN  /\ pc' = "done"
              /\ query' = ByCoordinates(start_lat, end_lat, o)
              /\ result' = route
              /\ cache' = IF key \notin DOMAIN cache /\ route.found
                          THEN (key :> route) @@ cache ELSE cache
              /\ trail' = IF key \in DOMAIN cache THEN {"cache_hit"} ELSE {"cache_miss"}
    /\ UNCHANGED << stops_cache, routes_cache, pq, best_costs, counter, trace_vars,
                    store_vars >>

\* find_route calls, and direct calls of _dijkstra_pathfinding between the
\* first NumStops stops taken turn by turn
NextDetour ==
    \/ FindRouteAcross
    \/ CallDijkstra
    \/ SkipWorse
    \/ FoundDestination
    \/ PruneTransfers
    \/ ExploreConnections
    \/ NoPathFound
    \/ Return

SpecDetour == InitDetour /\ [][NextDetour]_vars

\* ============================================ find_route between near points
\* A start point south of stop 1, within walking distance of stops 1 and 2,
\* and a start point and an end point that are both within walking distance
\* of stop 3.
NearbyStarts == { 1351, 2900 }
NearbyEnds == { 3150 }

\* RouteOptimizer.find_route, the whole call, between two of these points
FindRouteNearby ==
    /\ pc = "idle"
    /\ \E start_lat \in NearbyStarts, end_lat \in NearbyEnds, o \in Objectives :
          LET key   == cache_key(start_lat, end_lat, o)
              route == IF key \in DOMAIN cache THEN cache[key]
                       ELSE ComputeRoute(start_lat, end_lat, o)
          IN  /\ pc' = "done"
              /\ query' = ByCoordinates(start_lat, end_lat, o)
              /\ result' = route
              /\ cache' = IF key \notin DOMAIN cache /\ route.found
                          THEN (key :> route) @@ cache ELSE cache
              /\ trail' = IF key \in DOMAIN cache THEN {"cache_hit"} ELSE {"cache_miss"}
    /\ UNCHANGED << stops_cache, routes_cache, pq, best_costs, counter, trace_vars,
                    store_vars >>

\* the objectives a caller of the services may pass: optimize_for is a str
AskedObjectives == Objectives \cup { "fastest" }

\* RouteOptimizer.find_route_by_stops, the whole call, with any objective
FindRouteByStopsAsked ==
    /\ pc = "idle"
    /\ \E a \in StopIds, b \in StopIds, o \in AskedObjectives :
          /\ pc' = "done"
          /\ query' = ByStops(a, b, o)
          /\ result' = find_route_by_stops(a, b, o)
          /\ trail' = {"by_stops"}
          /\ UNCHANGED << stops_cache, routes_cache, pq, best_costs, counter, cache,
                          trace_vars, store_vars >>

NextNearby ==
    \/ FindRouteNearby
    \/ FindRouteByStopsAsked
    \/ Return

SpecNearby == InitRoute /\ [][NextNearby]_vars

\* ========================================= the graph store's point queries
\* find_nearest_stops, the walking-time operations and validate_coordinates,
\* each applied to inputs drawn from small sets.

\* the snapshots asked: any set of the stops cached (connections play no part)
GeoCaches == { [s \in S |-> << >>] : S \in SUBSET Stops }

\* the points asked about: at stop 1, between stops 1 and 2, within and just
\* out of walking distance of stop 2, between stops 3 and 4, at stops 4 and 5
GeoPoints == { 1501, 1651, 2253, 2254, 3150, 3301 }

\* the limits asked for; GET /stops/nearby puts no lower bound on its limit
GeoLimits == -1..(NEAREST_LIMIT + 1)

\* distances (in millimetres) on both sides of a full minute of walking and
\* of the maximum walking distance
GeoDistances ==
    { 0, 1, 83333, 83334, 416666, 416667,
      MAX_WALKING_DISTANCE_M * 1000 - 1, MAX_WALKING_DISTANCE_M * 1000,
      MAX_WALKING_DISTANCE_M * 1000 + 1 }

\* latitudes on both sides of the two poles, and the points of GeoPoints
GeoLatitudes == GeoPoints \cup { -9000001, -9000000, 9000000, 9000001 }

\* longitudes on both sides of the date line, and the stops' meridian
GeoLongitudes == { -18000001, -18000000, Meridian, 18000000, 18000001 }

\* the (stop_id, dist) pairs find_nearest_stops returns
NearestWithDistance(latitude, limit) ==
    [i \in 1..Len(find_nearest_stops(latitude, limit)) |->
        << find_nearest_stops(latitude, limit)[i],
           geodesic(latitude, StopPosition(find_nearest_stops(latitude, limit)[i])) >>]

\* the ids of S from the lowest up, or from the highest down
RECURSIVE InOrder(_, _)
InOrder(S, upward) ==
    IF S = {} THEN << >>
    ELSE LET s == CHOOSE x \in S : \A y \in S : IF upward THEN x <= y ELSE x >= y
         IN  << s >> \o InOrder(S \ {s}, upward)

\* the orders in which the cursor may hand over the stop documents, which is
\* the order of stops_cache.items()
LoadOrders(S) == { InOrder(S, TRUE), InOrder(S, FALSE) }

\* a backing store with the order of its stop documents
StoreInOrder(stops, routes) ==
    { [stops |-> stops, routes |-> routes, order |-> o] : o \in LoadOrders(DOMAIN stops) }

InitGeo ==
    /\ stops_cache \in GeoCaches
    /\ routes_cache = EmptyDict
    /\ pc = "idle"
    /\ query = NoQuery
    /\ pq = {}
    /\ best_costs = EmptyBest
    /\ counter = 0
    /\ result = NoRoute
    /\ trail = {}
    /\ cache = EmptyCache
    /\ visited = {}
    /\ step_count = 0
    /\ steps = << >>
    /\ db \in IF stops_cache = EmptyDict
               THEN UNION { StoreInOrder(d.stops, d.routes) :
                              d \in Stores \cup { [stops |-> EmptyDict,
                                                    routes |-> EmptyDict] } }
               ELSE StoreInOrder(stops_cache, routes_cache)
    /\ loader = NoLoad
    /\ pending = << >>

\* find_nearest_stops(latitude, longitude, limit)
NearestStops ==
    /\ pc = "idle"
    /\ \E latitude \in GeoPoints, limit \in GeoLimits :
          /\ pc' = "done"
          /\ query' = [entry |-> "nearest", latitude |-> latitude, limit |-> limit]
          /\ result' = NearestWithDistance(latitude, limit)
    /\ UNCHANGED << stops_cache, routes_cache, pq, best_costs, counter, trail, cache,
                    trace_vars, store_vars >>

\* calculate_walking_time_from_coords(lat, lon, stop_id) for a cached stop
WalkingTimeFromCoords ==
    /\ pc = "idle"
    /\ \E lat \in GeoPoints, stop_id \in DOMAIN stops_cache :
          /\ pc' = "done"
          /\ query' = [entry |-> "walking",
                       distance |-> geodesic(lat, StopPosition(stop_id))]
          /\ result' = calculate_walking_time_from_coords(lat, stop_id)
    /\ UNCHANGED << stops_cache, routes_cache, pq, best_costs, counter, trail, cache,
                    trace_vars, store_vars >>

\* calculate_walking_time(stop1_id, stop2_id) for two cached stops
WalkingTimeBetweenStops ==
    /\ pc = "idle"
    /\ \E stop1_id \in DOMAIN stops_cache, stop2_id \in DOMAIN stops_cache :
          /\ pc' = "done"
          /\ query' = [entry |-> "walking",
                       distance |-> geodesic(StopPosition(stop1_id),
                                             StopPosition(stop2_id))]
          /\ result' = << calculate_walking_time(stop1_id, stop2_id) >>
    /\ UNCHANGED << stops_cache, routes_cache, pq, best_costs, counter, trail, cache,
                    trace_vars, store_vars >>

\* get_stop_coordinates: the latitude of a cached stop, and for any other id
\* the tuple (None, None), written << >>
get_stop_coordinates(stop_id) ==
    IF stop_id \in DOMAIN stops_cache THEN << StopPosition(stop_id) >> ELSE << >>

\* "if not stop_coords" / "if not coords1 or not coords2": a tuple of two
\* elements is true, whatever it holds
IsFalsy(coords) == FALSE

\* geodesic is the library's: handed (None, None) it either reads a missing
\* coordinate as 0.0, the point on the equator, or raises
NoneOutcomes == { "read_as_zero", "raises" }

LatitudeRead(coords) == IF coords = << >> THEN 0 ELSE coords[1]

\* what a walking-time operation gives once geodesic was handed the two
\* coordinate tuples: the exception, or the minutes for the distance
WalkingOutcome(outcome, coords1, coords2) ==
    IF IsFalsy(coords1) \/ IsFalsy(coords2)
    THEN [raised |-> FALSE, minutes |-> Infinity]
    ELSE IF (coords1 = << >> \/ coords2 = << >>) /\ outcome = "raises"
    THEN [raised |-> TRUE, minutes |-> 0]
    ELSE [raised |-> FALSE,
          minutes |-> walking_minutes(geodesic(LatitudeRead(coords1),
                                               LatitudeRead(coords2)))]

\* calculate_walking_time_from_coords(lat, lon, stop_id) for an id that is not
\* cached
WalkingTimeFromCoordsUnknown ==
    /\ pc = "idle"
    /\ \E lat \in GeoPoints, stop_id \in StopIds \ DOMAIN stops_cache,
          outcome \in NoneOutcomes :
          /\ pc' = "done"
          /\ query' = [entry |-> "walking_unknown", lat |-> lat, stop_id |-> stop_id]
          /\ result' = WalkingOutcome(outcome, << lat >>, get_stop_coordinates(stop_id))
    /\ UNCHANGED << stops_cache, routes_cache, pq, best_costs, counter, trail, cache,
                    trace_vars, store_vars >>

\* calculate_walking_time(stop1_id, stop2_id), one id or both not cached
WalkingTimeBetweenStopsUnknown ==
    /\ pc = "idle"
    /\ \E stop1_id \in StopIds, stop2_id \in StopIds, outcome \in NoneOutcomes :
          /\ stop1_id \notin DOMAIN stops_cache \/ stop2_id \notin DOMAIN stops_cache
          /\ pc' = "done"
          /\ query' = [entry |-> "walking_unknown", stop1_id |-> stop1_id,
                       stop2_id |-> stop2_id]
          /\ result' = WalkingOutcome(outcome, get_stop_coordinates(stop1_id),
                                      get_stop_coordinates(stop2_id))
    /\ UNCHANGED << stops_cache, routes_cache, pq, best_costs, counter, trail, cache,
                    trace_vars, store_vars >>

\* either operation for a point off the grid of GeoPoints: geodesic has
\* returned one of GeoDistances
WalkingTimeAtDistance ==
    /\ pc = "idle"
    /\ DOMAIN stops_cache # {}
    /\ \E distance \in GeoDistances :
          /\ pc' = "done"
          /\ query' = [entry |-> "walking", distance |-> distance]
          /\ result' = << walking_minutes(distance), distance >>
    /\ UNCHANGED << stops_cache, routes_cache, pq, best_costs, counter, trail, cache,
                    trace_vars, store_vars >>

\* validate_coordinates(latitude, longitude)
ValidateCoordinates ==
    /\ pc = "idle"
    /\ \E latitude \in GeoLatitudes, longitude \in GeoLongitudes :
          /\ pc' = "done"
          /\ query' = [entry |-> "validate", latitude |-> latitude,
                       longitude |-> longitude]
          /\ result' = << validate_coordinates(latitude, longitude) >>
    /\ UNCHANGED << stops_cache, routes_cache, pq, best_costs, counter, trail, cache,
                    trace_vars, store_vars >>

\* how the load_graph_data call find_optimal_route makes on an empty stops
\* cache ends: "db is None", an error, or every document of the backing
\* store cached
LoadOutcomes == { "unavailable", "failed", "loaded" }

\* find_optimal_route(start_lat, start_lon, end_lat, end_lon, optimize_for)
\* for points on the meridian, called on an empty stops cache: up to the
\* return of "await self.load_graph_data()"
FindOptimalRouteLoads ==
    /\ pc = "idle"
    /\ DOMAIN stops_cache = {}
    /\ \E start_lat \in GeoLatitudes, end_lat \in EndPoints,
          optimize_for \in Objectives, load \in LoadOutcomes :
          /\ stops_cache' = IF load = "loaded" THEN db.stops
                            ELSE IF load = "failed" THEN OnLoadError.stops_cache
                            ELSE stops_cache
          /\ routes_cache' = IF load = "loaded" THEN db.routes
                             ELSE IF load = "failed" THEN OnLoadError.routes_cache
                             ELSE routes_cache
          /\ pc' = "loaded"
          /\ query' = [entry |-> "optimal", start_lat |-> start_lat,
                       end_lat |-> end_lat, optimize_for |-> optimize_for,
                       load |-> load]
    /\ UNCHANGED << pq, best_costs, counter, result, trail, cache, trace_vars,
                    store_vars >>

\* the same call from the return of load_graph_data to its own
FindOptimalRouteSearches ==
    /\ pc = "loaded"
    /\ pc' = "done"
    /\ result' = find_optimal_route(query.start_lat, query.end_lat, query.optimize_for)
    /\ UNCHANGED << stops_cache, routes_cache, query, pq, best_costs, counter, trail,
                    cache, trace_vars, store_vars >>

\* find_optimal_route called on a stops cache that holds something
FindOptimalRoute ==
    /\ pc = "idle"
    /\ DOMAIN stops_cache # {}
    /\ \E start_lat \in GeoLatitudes, end_lat \in EndPoints, optimize_for \in Objectives :
          /\ pc' = "done"
          /\ query' = [entry |-> "optimal", start_lat |-> start_lat,
                       end_lat |-> end_lat, optimize_for |-> optimize_for,
                       load |-> "none"]
          /\ result' = find_optimal_route(start_lat, end_lat, optimize_for)
    /\ UNCHANGED << stops_cache, routes_cache, pq, best_costs, counter, trail, cache,
                    trace_vars, store_vars >>

NextGeo ==
    \/ NearestStops
    \/ ValidateCoordinates
    \/ FindOptimalRouteLoads
    \/ FindOptimalRouteSearches
    \/ FindOptimalRoute
    \/ WalkingTimeFromCoords
    \/ WalkingTimeBetweenStops
    \/ WalkingTimeAtDistance
    \/ WalkingTimeFromCoordsUnknown
    \/ WalkingTimeBetweenStopsUnknown
    \/ Return

SpecGeo == InitGeo /\ [][NextGeo]_vars

\* ========================================== the loops, run to their return
\* The two loops of GraphService on the same graphs: _dijkstra_pathfinding and
\* get_algorithm_execution_steps, a turn at a time.  Neither loop awaits
\* anything, so a turn that can be taken is taken.  One call is followed from
\* its first turn to its return.
LoopGraphs == RouteSnapshots \cup { ChainGraph }

InitLoops ==
    /\ stops_cache \in LoopGraphs
    /\ routes_cache \in RouteStores
    /\ pc = "idle"
    /\ query = NoQuery
    /\ pq = {}
    /\ best_costs = EmptyBest
    /\ counter = 0
    /\ result = NoRoute
    /\ trail = {}
    /\ cache = EmptyCache
    /\ visited = {}
    /\ step_count = 0
    /\ steps = << >>
    /\ db = [stops |-> stops_cache, routes |-> routes_cache]
    /\ loader = NoLoad
    /\ pending = << >>

\* a direct call of _dijkstra_pathfinding on any of the graphs
SearchCalled ==
    /\ pc = "idle"
    /\ \E a \in DOMAIN stops_cache, b \in DOMAIN stops_cache, o \in Objectives,
          m \in {0, DEFAULT_MAX_TRANSFERS} :
          Seed(Query("dijkstra", a, b, o, m), {"queue_search"})

\* one turn of the while loop of _dijkstra_pathfinding, or its return
SearchTurn ==
    \/ SkipWorse
    \/ FoundDestination
    \/ PruneTransfers
    \/ ExploreConnections
    \/ NoPathFound

\* one turn of the while loop of get_algorithm_execution_steps, or its return
TraceTurn ==
    \/ TraceSkipVisited
    \/ TraceFoundDestination
    \/ TraceProcessNode
    \/ TraceLoopExit

NextLoops ==
    \/ SearchCalled
    \/ SkipWorse
    \/ FoundDestination
    \/ PruneTransfers
    \/ ExploreConnections
    \/ NoPathFound
    \/ TraceInitialize
    \/ TraceSkipVisited
    \/ TraceFoundDestination
    \/ TraceProcessNode
    \/ TraceLoopExit

SpecLoops ==
    InitLoops /\ [][NextLoops]_vars /\ WF_vars(SearchTurn) /\ WF_vars(TraceTurn)

\* =============================================================== properties
\* Reference notions, defined apart from the search they are compared with.
Succ(s) == { stops_cache[s][i].to_stop_id : i \in 1..Len(stops_cache[s]) }

RECURSIVE ReachFrom(_, _)
ReachFrom(seen, frontier) ==
    IF frontier = {} THEN seen
    ELSE LET next == (UNION { Succ(s) : s \in frontier }) \ seen
         IN  ReachFrom(seen \cup next, next)

\* b can be reached from a along directed connections
Reachable(a, b) == b \in ReachFrom({a}, {a})

NoCommonRoute(a, b) ==
    \A i \in 1..Len(routes_cache) :
        ~(\E j \in 1..Len(routes_cache[i].stops) : routes_cache[i].stops[j] = a)
        \/ ~(\E j \in 1..Len(routes_cache[i].stops) : routes_cache[i].stops[j] = b)

RefBoarding(route_id) ==
    IF \E i \in 1..Len(routes_cache) :
          routes_cache[i].route_id = route_id /\ routes_cache[i].route_type = "metro"
    THEN METRO_BOARDING_TIME ELSE BUS_BOARDING_TIME

RefChange(last_route, route_id) == last_route # "" /\ last_route # route_id

RefStepTime(last_route, c) ==
    c.time
    + (IF last_route = "" THEN RefBoarding(c.route_id)
       ELSE IF last_route # c.route_id
            THEN RefBoarding(c.route_id) + TRANSFER_WALKING_TIME
            ELSE 0)

Unreached == 1000 * 1000

Min2(x, y) == IF x <= y THEN x ELSE y

RECURSIVE MinOf(_)
MinOf(S) ==
    IF S = {} THEN Unreached
    ELSE LET x == CHOOSE y \in S : TRUE IN Min2(x, MinOf(S \ {x}))

RefKey(objective, time, cost, transfers) ==
    CASE objective = "time" -> time
      [] objective = "cost" -> cost
      [] OTHER -> transfers * TRANSFER_WEIGHT + time

\* The least key of a cycle-free path from `stop` to `end` that continues the
\* path walked so far (walked, last route, transfers, time, cost) and all of
\* whose proper prefixes have fewer than `limit` transfers; Unreached if none.
RECURSIVE BestAllowed(_, _, _, _, _, _, _, _, _)
BestAllowed(objective, stop, end, walked, last_route, transfers, time, cost, limit) ==
    IF stop = end THEN RefKey(objective, time, cost, transfers)
    ELSE IF transfers >= limit THEN Unreached
    ELSE MinOf({ BestAllowed(objective, stops_cache[stop][i].to_stop_id, end,
                             walked \cup { stops_cache[stop][i].to_stop_id },
                             stops_cache[stop][i].route_id,
                             transfers + (IF RefChange(last_route, stops_cache[stop][i].route_id)
                                          THEN 1 ELSE 0),
                             time + RefStepTime(last_route, stops_cache[stop][i]),
                             cost + stops_cache[stop][i].cost,
                             limit) :
                 i \in { k \in 1..Len(stops_cache[stop]) :
                           stops_cache[stop][k].to_stop_id \notin walked } })

BestKeyFor(objective, q) ==
    BestAllowed(objective, q.start, q.end, { q.start }, "", 0, 0, 0, q.max_transfers)

\* some cycle-free path from q.start to q.end may be expanded to its end
AllowedPathExists(q) == BestKeyFor("time", q) < Unreached

QueueSearchAnswered == pc = "done" /\ "queue_search" \in trail

\* C1: a stop-to-stop query from a cached stop A to itself is answered at once
\* (never entering the queue search, no shortcut lookup) with path [A], no
\* segments, time 0, cost 0 and 0 transfers, whatever the objective.
C1_SameStopTrivial ==
    (query.entry = "by_stops" /\ query.start \in DOMAIN stops_cache
       /\ query.start = query.end)
    => /\ pc = "done"
       /\ result.found
       /\ result.path = << query.start >>
       /\ result.segments = << >>
       /\ result.total_time = 0
       /\ result.total_cost = 0
       /\ result.transfers = 0
       /\ trail = {}
       /\ pq = {}

C1_Witness ==
    /\ pc = "done"
    /\ query.entry = "by_stops"
    /\ query.start = 3 /\ query.end = 3
    /\ query.optimize_for = "transfers"
    /\ Len(stops_cache[3]) > 0
    /\ result.found

\* C2: for known stops A # B with B unreachable from A along connections and
\* no route document listing both, find_route_by_stops returns no route.
C2_UnreachableGivesNone ==
    (pc = "done" /\ query.entry = "by_stops"
       /\ query.start \in DOMAIN stops_cache /\ query.end \in DOMAIN stops_cache
       /\ query.start # query.end
       /\ ~Reachable(query.start, query.end)
       /\ NoCommonRoute(query.start, query.end))
    => result = NoRoute

C2_Witness ==
    /\ pc = "done"
    /\ query.entry = "by_stops"
    /\ query.start \in DOMAIN stops_cache /\ query.end \in DOMAIN stops_cache
    /\ query.start # query.end
    /\ ~Reachable(query.start, query.end)
    /\ NoCommonRoute(query.start, query.end)
    /\ Cardinality(ReachFrom({query.start}, {query.start})) >= 3
    /\ "queue_search" \in trail
    /\ ~result.found

\* C3: find_route_by_stops returns an itinerary from A to B only if B can be
\* reached from A along directed connections of the snapshot.
C3_OnlyReachableAnswered ==
    (pc = "done" /\ query.entry = "by_stops" /\ result.found)
    => Reachable(query.start, query.end)

\* C4: when the snapshot holds a cycle-free path from start to end all of
\* whose proper prefixes have fewer than max_transfers transfers, the queue
\* search returns an itinerary.
C4_NoRouteIsDefinitive ==
    (QueueSearchAnswered /\ AllowedPathExists(query))
    => result.found

\* C5: under objective transfers the itinerary the queue search returns has a
\* key transfers * 100 + total_time no greater than that of any cycle-free
\* path within the transfer limit.
C5_TransfersKeyOptimal ==
    (QueueSearchAnswered /\ query.optimize_for = "transfers" /\ result.found)
    => result.transfers * TRANSFER_WEIGHT + result.total_time
          <= BestKeyFor("transfers", query)

\* C6: under objective time the itinerary find_route_by_stops returns has the
\* least total_time of all cycle-free paths within the transfer limit (stated
\* for the queries the queue search answers, where no shortcut is involved).
C6_TimeOptimal ==
    (QueueSearchAnswered /\ query.entry = "by_stops"
       /\ query.optimize_for = "time" /\ result.found)
    => result.total_time <= BestKeyFor("time", query)

\* C7: if _dijkstra_pathfinding finds an itinerary with transfer limit m, it
\* finds one with every larger limit.
C7_LimitMonotone ==
    (pc = "done" /\ query.entry = "dijkstra" /\ result.found)
    => \A m \in (query.max_transfers + 1)..(MaxLimit + 1) :
          _dijkstra_pathfinding(query.start, query.end, query.optimize_for, m).found

\* two answers a caller cannot tell apart by path, time, cost and transfers
SameAnswer(r1, r2) ==
    /\ r1.found = r2.found
    /\ r1.found => /\ r1.path = r2.path
                   /\ r1.total_time = r2.total_time
                   /\ r1.total_cost = r2.total_cost
                   /\ r1.transfers = r2.transfers

\* C8: whatever queries ran before, a stop-to-stop query and a
\* coordinate query are answered with the path, total_time, total_cost and
\* transfers (or the absence of a route) that the query gives by itself on
\* the unchanged snapshot.
C8_IndependentOfEarlierQueries ==
    /\ (pc = "done" /\ query.entry = "by_stops")
       => SameAnswer(result, find_route_by_stops(query.start, query.end, query.optimize_for))
    /\ (pc = "done" /\ query.entry = "find_route")
       => SameAnswer(result, ComputeRoute(query.start, query.end, query.optimize_for))

RECURSIVE SumOver(_, _, _)
SumOver(f(_), lo, hi) == IF lo > hi THEN 0 ELSE f(lo) + SumOver(f, lo + 1, hi)

RouteChanges(segs) == { i \in 2..Len(segs) : segs[i].route_id # segs[i - 1].route_id }

IsConnection(seg) ==
    \E k \in 1..Len(stops_cache[seg.from_stop]) :
        /\ stops_cache[seg.from_stop][k].to_stop_id = seg.to_stop
        /\ stops_cache[seg.from_stop][k].route_id = seg.route_id
        /\ stops_cache[seg.from_stop][k].time = seg.time
        /\ stops_cache[seg.from_stop][k].cost = seg.cost

\* C9: an itinerary returned by the queue search is a chain of connections of
\* the snapshot; total_cost is the sum of the segment costs, transfers is the
\* number of route changes between consecutive segments, and total_time is the
\* sum of the segment times plus the boarding time of the first segment's mode
\* plus, at every route change, the boarding time of the new mode and the
\* transfer walking time.
C9_TotalsAccumulate ==
    (QueueSearchAnswered /\ result.found)
    => LET segs == result.segments
           SegTime(i) == segs[i].time
           SegCost(i) == segs[i].cost
           ChangeTime(i) ==
               IF i \in RouteChanges(segs)
               THEN RefBoarding(segs[i].route_id) + TRANSFER_WALKING_TIME ELSE 0
       IN  /\ Len(result.path) = Len(segs) + 1
           /\ result.path[1] = query.start
           /\ result.path[Len(result.path)] = query.end
           /\ \A i \in 1..Len(segs) :
                  /\ segs[i].from_stop = result.path[i]
                  /\ segs[i].to_stop = result.path[i + 1]
                  /\ IsConnection(segs[i])
           /\ result.total_cost = SumOver(SegCost, 1, Len(segs))
           /\ result.transfers = Cardinality(RouteChanges(segs))
           /\ result.total_time =
                  SumOver(SegTime, 1, Len(segs))
                  + (IF Len(segs) > 0 THEN RefBoarding(segs[1].route_id) ELSE 0)
                  + SumOver(ChangeTime, 1, Len(segs))

C9_Witness ==
    /\ QueueSearchAnswered
    /\ result.found
    /\ Len(result.segments) >= 3
    /\ result.transfers >= 1
    /\ result.transfers < Len(result.segments) - 1
    /\ result.total_time > result.segments[1].time + result.segments[2].time
                           + result.segments[3].time + BUS_BOARDING_TIME

\* C10: when the start stop has a connection to a different end stop,
\* find_route_by_stops returns at once the one-segment, zero-transfer itinerary
\* built from the first such connection in stored order (time plus boarding
\* time, its cost), whatever the objective and without any queue search.
C10_DirectShortcut ==
    (query.entry = "by_stops"
       /\ query.start \in DOMAIN stops_cache /\ query.end \in DOMAIN stops_cache
       /\ query.start # query.end
       /\ query.end \in Succ(query.start))
    => LET conns == stops_cache[query.start]
           first == CHOOSE k \in 1..Len(conns) :
                       /\ conns[k].to_stop_id = query.end
                       /\ \A j \in 1..(k - 1) : conns[j].to_stop_id # query.end
       IN  /\ pc = "done"
           /\ result.found
           /\ result.path = << query.start, query.end >>
           /\ result.transfers = 0
           /\ result.total_cost = conns[first].cost
           /\ result.total_time = conns[first].time + RefBoarding(conns[first].route_id)
           /\ Len(result.segments) = 1
           /\ result.segments[1].route_id = conns[first].route_id
           /\ result.segments[1].time = conns[first].time
           /\ "queue_search" \notin trail
           /\ pq = {}

\* a direct connection exists, a later one to the same stop is faster, and a
\* multi-transfer path is faster than the answer
C10_Witness ==
    /\ pc = "done"
    /\ query.entry = "by_stops"
    /\ query.start # query.end
    /\ query.start \in DOMAIN stops_cache /\ query.end \in DOMAIN stops_cache
    /\ query.end \in Succ(query.start)
    /\ query.optimize_for = "time"
    /\ result.found
    /\ \E k \in 1..Len(stops_cache[query.start]) :
          /\ stops_cache[query.start][k].to_stop_id = query.end
          /\ stops_cache[query.start][k].time < result.segments[1].time
    /\ \E p \in Stops \ {query.start, query.end} :
          /\ p \in Succ(query.start)
          /\ Reachable(p, query.end)
    /\ BestKeyFor("time", query) < result.total_time

\* the route documents listing both stops, and the first of them
DocsServing(a, b) ==
    { k \in 1..Len(db.routes) :
        /\ \E i \in 1..Len(db.routes[k].stops) : db.routes[k].stops[i] = a
        /\ \E i \in 1..Len(db.routes[k].stops) : db.routes[k].stops[i] = b }

FirstPosition(x, seq) == MinOf({ i \in 1..Len(seq) : seq[i] = x })

\* C11: when the start stop has no connection to the (different) end stop and
\* a stored route lists both stops, find_route_by_stops answers with one
\* segment over path [start, end], zero transfers, segment time 3 x n and cost
\* 2 x n for n the distance between the two stops' positions in the first such
\* route's stop list, total time 3 x n plus that route's boarding time, and the
\* queue search is not run.
C11_SharedRouteShortcut ==
    (query.entry = "by_stops"
       /\ query.start \in DOMAIN stops_cache /\ query.end \in DOMAIN stops_cache
       /\ query.start # query.end
       /\ query.end \notin Succ(query.start)
       /\ DocsServing(query.start, query.end) # {})
    => LET doc == db.routes[MinOf(DocsServing(query.start, query.end))]
           ps  == FirstPosition(query.start, doc.stops)
           pe  == FirstPosition(query.end, doc.stops)
           n   == IF ps < pe THEN pe - ps ELSE ps - pe
       IN  /\ pc = "done"
           /\ result.found
           /\ result.path = << query.start, query.end >>
           /\ result.transfers = 0
           /\ Len(result.segments) = 1
           /\ result.segments[1].route_id = doc.route_id
           /\ result.segments[1].from_stop = query.start
           /\ result.segments[1].to_stop = query.end
           /\ result.segments[1].time = 3 * n
           /\ result.segments[1].cost = 2 * n
           /\ result.total_cost = 2 * n
           /\ result.total_time = 3 * n + RefBoarding(doc.route_id)
           /\ "queue_search" \notin trail
           /\ pq = {}

\* the shortcut answered a query against the listed direction, two documents
\* list both stops at different distances, and the first document decided
C11_Witness ==
    /\ pc = "done"
    /\ query.entry = "by_stops"
    /\ query.start \in DOMAIN stops_cache /\ query.end \in DOMAIN stops_cache
    /\ query.start # query.end
    /\ query.end \notin Succ(query.start)
    /\ Cardinality(DocsServing(query.start, query.end)) >= 2
    /\ "shared_lookup" \in trail
    /\ result.found
    /\ LET first == db.routes[MinOf(DocsServing(query.start, query.end))]
       IN  /\ FirstPosition(query.end, first.stops) < FirstPosition(query.start, first.stops)
           /\ result.segments[1].time = 9
           /\ \E k \in DocsServing(query.start, query.end) :
                 Abs(FirstPosition(query.end, db.routes[k].stops)
                     - FirstPosition(query.start, db.routes[k].stops)) = 2

\* the segments of an itinerary that ride a route: the walking legs left out
TransitSegments(segs) == SelectSeq(segs, LAMBDA seg : seg.route_id # "WALKING")

\* C12 as stated: in every itinerary returned by find_route_by_stops or by
\* find_route (walking legs added), transfers equals the number of adjacent
\* segment pairs whose route ids differ.
C12_TransfersCountAllPairs ==
    (pc = "done" /\ result.found)
    => result.transfers = Cardinality(RouteChanges(result.segments))

\* C12 amended: in every itinerary returned by find_route_by_stops or by
\* find_route, transfers equals the number of adjacent pairs of transit
\* segments (the segments other than the inserted WALKING legs) whose route
\* ids differ.
C12_TransfersCountTransitPairs ==
    (pc = "done" /\ result.found)
    => result.transfers = Cardinality(RouteChanges(TransitSegments(result.segments)))

\* find_route returned a ride on one route with a walking leg at each end:
\* two adjacent pairs differ in route id and no transfer is counted
C12_Witness ==
    /\ pc = "done"
    /\ query.entry = "find_route"
    /\ result.found
    /\ Len(result.segments) = 3
    /\ result.segments[1].route_id = "WALKING"
    /\ result.segments[3].route_id = "WALKING"
    /\ Len(TransitSegments(result.segments)) = 1
    /\ Cardinality(RouteChanges(result.segments)) = 2
    /\ result.transfers = 0

\* a path and its segments chain from `first` to `last` without repeating a stop
WellFormedPath(path, segments, first, last) ==
    /\ Len(path) >= 1
    /\ \A i \in 1..Len(path) : \A j \in 1..Len(path) : path[i] = path[j] => i = j
    /\ path[1] = first
    /\ path[Len(path)] = last
    /\ Len(path) = Len(segments) + 1
    /\ \A i \in 1..Len(segments) :
          segments[i].from_stop = path[i] /\ segments[i].to_stop = path[i + 1]

\* C13: every state on the search queue, and every itinerary the pathfinder
\* returns, has a path without a repeated stop that begins at the start stop,
\* ends at the state's current stop (the end stop, for a returned itinerary),
\* has one more stop than segments, and whose i-th segment runs from the i-th
\* stop of the path to the next.
C13_PathsWellFormed ==
    /\ \A e \in pq : WellFormedPath(e.path, e.segments, query.start, e.stop)
    /\ (pc = "done" /\ result.found)
       => WellFormedPath(result.path, result.segments, query.start, query.end)

\* the queue holds a state three segments deep while another state waits at a
\* stop that state has passed
C13_Witness ==
    /\ pc = "search"
    /\ \E e \in pq, f \in pq :
          /\ Len(e.segments) >= 3
          /\ f # e
          /\ InSeq(f.stop, e.path)
          /\ f.stop # e.stop

\* the stops _dijkstra_pathfinding pops and does not skip, collected along a run
RECURSIVE PoppedNotSkipped(_, _, _, _, _)
PoppedNotSkipped(s, end_stop_id, optimize_for, max_transfers, seen) ==
    IF s.outcome # "running" THEN seen
    ELSE PoppedNotSkipped(SearchStep(s, end_stop_id, optimize_for, max_transfers),
                          end_stop_id, optimize_for, max_transfers,
                          IF StepKind(s, end_stop_id, max_transfers)
                                 \in { "found", "prune", "expand" }
                          THEN seen \cup { PopMin(s.pq).stop }
                          ELSE seen)

\* the trace call ran to its return on two cached stops without reaching the
\* step limit
TraceUncapped ==
    /\ pc = "done"
    /\ query.entry = "trace"
    /\ query.start \in DOMAIN stops_cache /\ query.end \in DOMAIN stops_cache
    /\ step_count < 100

\* C14: the step trace returned by get_algorithm_execution_steps holds at most
\* 100 records, the initialize record and the terminal record counted.
C14_TraceAtMostHundredRecords == Len(steps) <= 100

\* C15: when the trace does not reach the 100-step limit, the stops it has
\* marked visited at its end are exactly the stops _dijkstra_pathfinding (with
\* the default transfer limit) pops and does not skip for the same start, end
\* and objective.
C15_TraceVisitedMatchesSearch ==
    TraceUncapped
    => visited = PoppedNotSkipped(InitSearch(query.start), query.end, query.optimize_for,
                                  DEFAULT_MAX_TRANSFERS, {})

\* C16: when the trace does not reach the 100-step limit, it holds a
\* found_destination record exactly when _dijkstra_pathfinding (with the
\* default transfer limit) returns an itinerary for the same query.
C16_TraceFoundIffSearchFinds ==
    TraceUncapped
    => ((\E i \in 1..Len(steps) : steps[i].action = "found_destination")
        <=> RunSearch(InitSearch(query.start), query.end, query.optimize_for,
                      DEFAULT_MAX_TRANSFERS).outcome = "found")

\* C17: a query that reads the caches while load_graph_data is running finds
\* in them the complete snapshot held before the load began or the complete
\* new snapshot of the backing store, never an empty or a partly filled one.
C17_ReadsSeeCompleteSnapshot ==
    [][(pc = "idle" /\ pc' = "done" /\ query'.entry = "by_stops" /\ loader.pc # "idle")
       => \/ << stops_cache, routes_cache >> = loader.previous
          \/ << stops_cache, routes_cache >> = << db.stops, db.routes >>]_vars

\* C18: when load_graph_data fails while reading the stop or the route
\* documents, at whatever point, the call returns without raising and both
\* stops_cache and routes_cache are left empty.
C18_FailedLoadLeavesEmptyCaches ==
    (loader.pc = "idle" /\ loader.failed)
    => /\ ~loader.raised
       /\ DOMAIN stops_cache = {}
       /\ DOMAIN routes_cache = {}

\* a reload of filled caches failed after some, not all, stop documents had
\* been inserted
C18_Witness ==
    /\ loader.pc = "idle"
    /\ loader.failed
    /\ loader.fetched > 0
    /\ loader.fetched < Len(db.stops)
    /\ Len(loader.previous) = 2
    /\ DOMAIN loader.previous[1] # {}
    /\ Len(loader.previous[2]) > 0

\* ------------------------------------------------------------------ C19
\* the stops within walking distance of a point
WithinWalk(lat) ==
    { s \in DOMAIN stops_cache :
        geodesic(lat, StopPosition(s)) <= MAX_WALKING_DISTANCE_M * 1000 }

\* the place of a stop among those within walking distance, nearest first
RankFrom(lat, s) ==
    1 + Cardinality({ t \in WithinWalk(lat) : t # s /\ Nearer(lat, t, s) })

\* the pairs of one of the three nearest start stops with one of the three
\* nearest end stops
CandidatePairs(start_lat, end_lat) ==
    { p \in WithinWalk(start_lat) \X WithinWalk(end_lat) :
        RankFrom(start_lat, p[1]) <= 3 /\ RankFrom(end_lat, p[2]) <= 3 }

\* p is tried before q: start candidates outer loop, end candidates inner loop
TriedBefore(start_lat, end_lat, p, q) ==
    \/ RankFrom(start_lat, p[1]) < RankFrom(start_lat, q[1])
    \/ /\ p[1] = q[1]
       /\ RankFrom(end_lat, p[2]) < RankFrom(end_lat, q[2])

WalkMinutes(start_lat, end_lat, p) ==
    calculate_walking_time_from_coords(start_lat, p[1])[1]
    + calculate_walking_time_from_coords(end_lat, p[2])[1]

\* the objective scalar of the itinerary of pair p: its total time (the search's
\* time with the walks added) plus the walks, its fare, or its transfers
Scalar(start_lat, end_lat, o, p) ==
    LET route == _dijkstra_with_transfers(p[1], p[2], o)
    IN  IF o = "time"
        THEN (route.total_time + WalkMinutes(start_lat, end_lat, p))
             + WalkMinutes(start_lat, end_lat, p)
        ELSE IF o = "cost" THEN route.total_cost
        ELSE route.transfers

Yielding(start_lat, end_lat, o) ==
    { p \in CandidatePairs(start_lat, end_lat) :
        _dijkstra_with_transfers(p[1], p[2], o).found }

\* pair p has the lowest scalar, and no pair with that scalar is tried earlier
FirstLowest(start_lat, end_lat, o, p) ==
    /\ p \in Yielding(start_lat, end_lat, o)
    /\ \A q \in Yielding(start_lat, end_lat, o) :
          /\ Scalar(start_lat, end_lat, o, p) <= Scalar(start_lat, end_lat, o, q)
          /\ Scalar(start_lat, end_lat, o, p) = Scalar(start_lat, end_lat, o, q)
                => ~TriedBefore(start_lat, end_lat, q, p)

\* the answer is the itinerary of pair p with the walks added
IsItineraryOf(route, start_lat, end_lat, o, p) ==
    LET found == _dijkstra_with_transfers(p[1], p[2], o)
    IN  /\ route.found
        /\ route.path = found.path
        /\ route.total_time = found.total_time + WalkMinutes(start_lat, end_lat, p)
        /\ route.total_cost = found.total_cost
        /\ route.transfers = found.transfers
        /\ route.walking_time = WalkMinutes(start_lat, end_lat, p)

SearchedByCoordinates ==
    pc = "done" /\ query.entry = "find_route" /\ trail = {"cache_miss"}

C20_CachedItineraryKept ==
    [][/\ \A key \in DOMAIN cache : key \in DOMAIN cache' /\ cache'[key] = cache[key]
       /\ (pc = "idle" /\ pc' = "done" /\ trail' = {"cache_hit"})
             => /\ result' = cache[cache_key(query'.start, query'.end, query'.optimize_for)]
                /\ pending' = pending]_vars

\* ------------------------------------------------------------------ C21
\* the call being served names a stop that is not in the snapshot
UnknownStopAsked ==
    /\ query.entry \in {"by_stops", "trace"}
    /\ \/ query.start \notin DOMAIN stops_cache
       \/ query.end \notin DOMAIN stops_cache

\* C21: a stop-to-stop query with a start or end stop that is not in the
\* snapshot is answered at once: no itinerary from _dijkstra_with_transfers and
\* find_route_by_stops, an empty list of trace records, status 400 from the
\* endpoints, and never a queue, a best-cost table or a search stage.
C21_UnknownStopRejected ==
    UnknownStopAsked =>
        /\ pc = "done"
        /\ ~result.found
        /\ pq = {} /\ best_costs = EmptyBest /\ counter = 0 /\ trail = {}
        /\ steps = << >> /\ visited = {}
        /\ ~_dijkstra_with_transfers(query.start, query.end, query.optimize_for).found
        /\ ~find_route_by_stops(query.start, query.end, query.optimize_for).found
        /\ route_stops_endpoint(query.start, query.end, query.optimize_for) = 400
        /\ get_algorithm_steps(query.start, query.end, query.optimize_for) = 400

\* find_route_by_stops was asked for a stop that is not cached from one that is
C21_Witness ==
    /\ pc = "done"
    /\ query.entry = "by_stops"
    /\ query.start \in DOMAIN stops_cache
    /\ stops_cache[query.start] # << >>
    /\ query.end \notin DOMAIN stops_cache

\* ------------------------------------------------------------------ C22
NearestAnswered == pc = "done" /\ query.entry = "nearest"

\* the stops of the answer
Returned22 == { result[i][1] : i \in 1..Len(result) }

\* what holds of every answer of find_nearest_stops: the stops are cached and
\* named once, every distance is that of its stop and within walking
\* distance, the distances never decrease, and no cached stop left out is
\* strictly closer than a returned one
NearestWithinAndSorted ==
    /\ \A i \in 1..Len(result) :
          /\ result[i][1] \in DOMAIN stops_cache
          /\ result[i][2] = Abs(query.latitude - StopPosition(result[i][1])) * 1106
          /\ result[i][2] <= MAX_WALKING_DISTANCE_M * 1000
    /\ \A i, j \in 1..Len(result) :
          /\ i < j => result[i][2] <= result[j][2]
          /\ i # j => result[i][1] # result[j][1]
    /\ \A s \in DOMAIN stops_cache \ Returned22 :
          \A i \in 1..Len(result) :
             Abs(query.latitude - StopPosition(s)) * 1106 >= result[i][2]

\* the cached stops located exactly at the query point
StopsAtPoint == { s \in DOMAIN stops_cache : StopPosition(s) = query.latitude }

WalkingAnswered == pc = "done" /\ query.entry = "walking"

\* m is floor(d / walkingSpeed x 60) for the distance d in millimetres
IsFloorOfMinutes(m, d) ==
    /\ m * WALKING_SPEED_KMH * 1000000 <= d * 60
    /\ d * 60 < (m + 1) * WALKING_SPEED_KMH * 1000000

\* the distances the walking-time operations are asked about
DistancesAsked ==
    GeoDistances
    \cup { Abs(lat - StopPosition(s)) * 1106 : lat \in GeoPoints, s \in DOMAIN stops_cache }
    \cup { Abs(StopPosition(s) - StopPosition(t)) * 1106 :
             s \in DOMAIN stops_cache, t \in DOMAIN stops_cache }

InRanges(latitude, longitude) ==
    /\ -9000000 <= latitude /\ latitude <= 9000000
    /\ -18000000 <= longitude /\ longitude <= 18000000

\* validate_coordinates: with an empty stops cache every point within the
\* ranges is accepted; a point outside them is rejected whatever is cached
ValidatedByRange ==
    pc = "done" /\ query.entry = "validate" =>
        /\ (DOMAIN stops_cache = {} /\ InRanges(query.latitude, query.longitude))
              => result = << TRUE >>
        /\ ~InRanges(query.latitude, query.longitude) => result = << FALSE >>

\* C24 (as stated): with an empty stop cache validate_coordinates accepts
\* every point within the latitude and longitude ranges and
\* find_optimal_route, called on the empty cache, answers None; points
\* outside the ranges are rejected whatever the cache holds.
C24_EmptyCachePermissive ==
    /\ ValidatedByRange
    /\ (pc = "done" /\ query.entry = "optimal" /\ query.load # "none")
          => ~result.found

\* C24 (amended): the same, for a find_optimal_route whose stop cache is
\* still empty once the load it makes on an empty cache has returned.
C24_EmptyCacheAfterLoadPermissive ==
    /\ ValidatedByRange
    /\ (pc = "done" /\ query.entry = "optimal" /\ query.load # "none"
          /\ DOMAIN stops_cache = {})
          => ~result.found

\* find_optimal_route between two valid points, called on an empty cache
\* that the failing load leaves empty, answers None
C24_Witness ==
    /\ pc = "done"
    /\ query.entry = "optimal"
    /\ query.load = "failed"
    /\ DOMAIN stops_cache = {}
    /\ DOMAIN db.stops # {}
    /\ InRanges(query.start_lat, Meridian)
    /\ ~result.found

\* ------------------------------------------------------------------ C25
\* find_route has answered a query by coordinates with an itinerary
FindRouteAnswered == pc = "done" /\ query.entry = "find_route" /\ result.found

\* C25: for the same coordinates and the same snapshot, the itinerary
\* find_route returns under objective "transfers" has at most one transfer
\* more than the one it returns under objective "time".
C25_TransfersObjectiveTransfers ==
    (FindRouteAnswered /\ query.optimize_for = "transfers"
        /\ ComputeRoute(query.start, query.end, "time").found)
    => result.transfers <= ComputeRoute(query.start, query.end, "time").transfers + 1

\* ------------------------------------------------------------------ C26
\* the entries the expansions of the running search have pushed
Pushed == { e \in pq : Len(e.segments) > 0 }

\* the penalty charged on a segment that follows another one
PenaltyAfterFirst(segs, i) ==
    IF segs[i].route_id # segs[i - 1].route_id
    THEN get_mode_specific_penalties(segs[i].route_id)[1]
         + get_mode_specific_penalties(segs[i].route_id)[2]
    ELSE 0

RECURSIVE TimeWithPenalties(_, _)
TimeWithPenalties(segs, i) ==
    IF i = 0 THEN 0
    ELSE TimeWithPenalties(segs, i - 1) + segs[i].time + segs[i].boarding_time

\* C26 (as stated): the boarding penalty added for a connection during
\* expansion is zero when it is the first segment of the path, the boarding
\* time plus the transfer-walk time of its route when the route differs from
\* the previous segment's, and zero otherwise.
C26_BoardingPenalty ==
    \A e \in Pushed :
        /\ e.total_time = TimeWithPenalties(e.segments, Len(e.segments))
        /\ \A i \in 1..Len(e.segments) :
              e.segments[i].boarding_time =
                  IF i = 1 THEN 0 ELSE PenaltyAfterFirst(e.segments, i)

\* C26 (amended): the penalty is the boarding time of the connection's route
\* (without the transfer-walk time) when it is the first segment of the
\* path, the boarding time plus the transfer-walk time when the route differs
\* from the previous segment's, and zero otherwise.
C26_BoardingPenaltyFirstBoards ==
    \A e \in Pushed :
        /\ e.total_time = TimeWithPenalties(e.segments, Len(e.segments))
        /\ \A i \in 1..Len(e.segments) :
              e.segments[i].boarding_time =
                  IF i = 1 THEN get_mode_specific_penalties(e.segments[1].route_id)[1]
                  ELSE PenaltyAfterFirst(e.segments, i)

\* the queue holds a state pushed after a change of route and one pushed
\* after a continuation on the same route
C26_Witness ==
    /\ \E e \in Pushed : \E i \in 2..Len(e.segments) :
          /\ e.segments[i].route_id # e.segments[i - 1].route_id
          /\ e.segments[i].boarding_time > e.segments[1].boarding_time
    /\ \E e \in Pushed : \E i \in 2..Len(e.segments) :
          /\ e.segments[i].route_id = e.segments[i - 1].route_id
          /\ e.segments[i].boarding_time = 0
          /\ e.segments[1].boarding_time > 0

\* ------------------------------------------------------------------ C27
\* C27: in the general search a popped state whose transfer count is at
\* least max_transfers is never expanded (no state is pushed in its turn of
\* the loop), so every state on the queue and every itinerary the search
\* returns has at most max_transfers transfers.
C27_TransferLimit ==
    [][ /\ (pc = "search" /\ pq' \ pq # {})
              => PopMin(pq).transfers < query.max_transfers
        /\ pc' = "search"
              => \A e \in pq' : e.transfers <= query'.max_transfers
        /\ (pc = "search" /\ pc' = "done" /\ result'.found)
              => result'.transfers <= query.max_transfers ]_vars

\* the state popped next stands at the transfer limit, away from the end
\* stop, and is not expanded
C27_Witness ==
    /\ pc = "search"
    /\ query.max_transfers >= 1
    /\ pq # {}
    /\ PopMin(pq).transfers = query.max_transfers
    /\ PopMin(pq).stop # query.end
    /\ PopMin(pq).stop \in DOMAIN stops_cache
    /\ stops_cache[PopMin(pq).stop] # << >>
    /\ CurrentKind = "prune"

\* ------------------------------------------------------------------ C28
\* the stops of the states the rest of the run pops and does not skip, in
\* the order of the pops
RECURSIVE NotSkippedPops(_, _, _, _)
NotSkippedPops(s, end_stop_id, optimize_for, max_transfers) ==
    IF s.outcome # "running" \/ s.pq = {} THEN << >>
    ELSE (IF StepKind(s, end_stop_id, max_transfers) = "skip" THEN << >>
          ELSE << PopMin(s.pq).stop >>)
         \o NotSkippedPops(SearchStep(s, end_stop_id, optimize_for, max_transfers),
                           end_stop_id, optimize_for, max_transfers)

NoStopTwice(seq) == \A i, j \in 1..Len(seq) : seq[i] = seq[j] => i = j

\* one turn of the loop keeps the discipline of the best priorities
BestPriorityDiscipline ==
    (pc = "search" /\ pq # {}) =>
        /\ pc' = "search" =>
              /\ \A x \in DOMAIN best_costs :
                    x \in DOMAIN best_costs' /\ best_costs'[x] <= best_costs[x]
              /\ \A e \in pq' \ pq :
                    /\ e.stop \in DOMAIN best_costs => e.priority < best_costs[e.stop]
                    /\ \A f \in pq' \ pq :
                          (f.stop = e.stop /\ e.cnt < f.cnt) => f.priority < e.priority
              /\ pq' # {} => PopMin(pq).priority <= PopMin(pq').priority
        /\ PopMin(pq).priority > best_costs[PopMin(pq).stop] =>
              /\ pc' = "search"
              /\ pq' = pq \ { PopMin(pq) }
              /\ best_costs' = best_costs

\* C28: in one run of the general search each stop is expanded (popped and
\* not skipped) at most once: the recorded best priority of a stop never
\* increases, a state is pushed only when its priority is strictly lower
\* than the best recorded for its stop, states are popped in non-decreasing
\* priority order, and a popped state worse than the recorded best of its
\* stop is skipped.
C28_EachStopExpandedOnce ==
    /\ [][BestPriorityDiscipline]_vars
    /\ [](pc = "search" =>
             NoStopTwice(NotSkippedPops(Current, query.end, query.optimize_for,
                                        query.max_transfers)))

\* the state popped next is worse than the best recorded for its stop, which
\* a later and better push has lowered, and other states wait behind it
C28_Witness ==
    /\ pc = "search"
    /\ pq # {}
    /\ PopMin(pq).priority > best_costs[PopMin(pq).stop]
    /\ pq # { PopMin(pq) }

\* ------------------------------------------------------------------ C29
\* C29: under objective transfers the transfer count dominates the priority
\* key: of any two states of the search the one with fewer transfers has the
\* strictly lower key, whatever their accumulated times, and the accumulated
\* time orders the states with equal transfer counts.
C29_TransfersDominateKey ==
    (pc = "search" /\ query.optimize_for = "transfers") =>
        \A e, f \in pq :
            /\ e.priority = e.transfers * 100 + e.total_time
            /\ e.transfers < f.transfers => e.priority < f.priority
            /\ (e.transfers = f.transfers /\ e.total_time < f.total_time)
                  => e.priority < f.priority

\* ------------------------------------------------------------------ C30
TerminalActions == { "found_destination", "max_steps_reached", "no_route_found" }

\* C30: the last record of every non-empty trace is its one terminal record:
\* found_destination when the end stop was popped; otherwise
\* max_steps_reached when the step limit was hit with the queue not empty;
\* otherwise no_route_found. A trace with a found_destination record has no
\* no_route_found record, and the step numbers increase strictly.
C30_OneTerminalRecord ==
    [][ (pc = "trace" /\ pc' = "done") =>
          /\ steps'[Len(steps')].action \in TerminalActions
          /\ \A i \in 1..(Len(steps') - 1) : steps'[i].action \notin TerminalActions
          /\ steps'[Len(steps')].action =
                IF query.end \in visited' THEN "found_destination"
                ELSE IF step_count >= 100 /\ pq # {} THEN "max_steps_reached"
                ELSE "no_route_found"
          /\ (\E i \in 1..Len(steps') : steps'[i].action = "found_destination")
                => \A j \in 1..Len(steps') : steps'[j].action # "no_route_found"
          /\ \A i \in 1..(Len(steps') - 1) : steps'[i].step < steps'[i + 1].step ]_vars

\* ---------------------------------------------------------------------- C31
\* the graph holds a cycle through stop s
OnCycle(s) ==
    s \in DOMAIN stops_cache
    /\ \E t \in Succ(s) : t \in DOMAIN stops_cache /\ Reachable(t, s)

\* C31: on every graph, cyclic ones included, and for every objective, a
\* running _dijkstra_pathfinding comes to its return (the end stop popped or
\* the queue exhausted), and a running get_algorithm_execution_steps comes to
\* its return with its step list.
C31_LoopsTerminate ==
    /\ (pc = "search") ~> (pc = "done" /\ query.entry = "dijkstra" /\ pq = {})
    /\ (pc = "trace") ~> (pc = "done" /\ query.entry = "trace" /\ Len(steps) > 0)

\* a search across a cycle has exhausted its queue and returned no route
C31_Witness ==
    /\ pc = "done"
    /\ query.entry = "dijkstra"
    /\ OnCycle(query.start)
    /\ ~result.found
    /\ query.max_transfers = DEFAULT_MAX_TRANSFERS

\* ---------------------------------------------------------------------- C32
\* find_route has returned an itinerary
FindRouteFound == pc = "done" /\ query.entry = "find_route" /\ result.found

\* C32: the itinerary find_route returns begins with a WALKING segment of
\* cost 0 from the query origin to its first stop whenever the walking time
\* from the origin to that stop is positive, and ends with a WALKING segment
\* of cost 0 from its last stop to the query destination whenever the walking
\* time to the destination is positive; this for every itinerary
\* find_optimal_route hands over, the same-stop itinerary without segments
\* included.
C32_WalkingLegsAdded ==
    FindRouteFound =>
        LET first_stop_id == result.path[1]
            last_stop_id  == result.path[Len(result.path)]
            start_walking_time ==
                calculate_walking_time_from_coords(query.start, first_stop_id)[1]
            end_walking_time ==
                calculate_walking_time_from_coords(query.end, last_stop_id)[1]
        IN  /\ start_walking_time > 0 =>
                  /\ Len(result.segments) > 0
                  /\ result.segments[1]
                        = WalkingSegment("START", first_stop_id, start_walking_time)
                  /\ result.segments[1].cost = 0
            /\ end_walking_time > 0 =>
                  /\ Len(result.segments) > 0
                  /\ result.segments[Len(result.segments)]
                        = WalkingSegment(last_stop_id, "END", end_walking_time)
                  /\ result.segments[Len(result.segments)].cost = 0

\* ---------------------------------------------------------------------- C33
\* C33: the summary of an itinerary find_route returns begins with a walk
\* clause whenever the itinerary's start walking time is positive and ends
\* with a walk clause whenever its end walking time is positive.
C33_SummaryBracketedByWalks ==
    FindRouteFound =>
        /\ result.start_walking_time > 0 =>
              /\ Len(result.route_summary) > 0
              /\ result.route_summary[1].kind = "Walk to stop"
        /\ result.end_walking_time > 0 =>
              /\ Len(result.route_summary) > 0
              /\ result.route_summary[Len(result.route_summary)].kind
                    = "Walk to destination"

\* ---------------------------------------------------------------------- C34
\* the total time of the itinerary of pair p: the search's time and the two
\* walks, each once
TotalTimeOf(start_lat, end_lat, o, p) ==
    _dijkstra_with_transfers(p[1], p[2], o).total_time
    + WalkMinutes(start_lat, end_lat, p)

\* C34: with objective time, the itinerary find_optimal_route returns has the
\* lowest total_time (transit time plus the access and egress walks, each
\* counted once) of all candidate stop pairs that yield a route.
C34_TimeObjectiveLowestTotalTime ==
    (SearchedByCoordinates /\ result.found /\ query.optimize_for = "time")
    => \A p \in Yielding(query.start, query.end, "time") :
          result.total_time <= TotalTimeOf(query.start, query.end, "time", p)

\* ---------------------------------------------------------------------- C35
\* the most transfers a cycle-free path accumulates that continues the path
\* walked so far
RECURSIVE MostTransfers(_, _, _, _)
MostTransfers(stop, walked, last_route, transfers) ==
    LET onward ==
            { MostTransfers(stops_cache[stop][i].to_stop_id,
                            walked \cup { stops_cache[stop][i].to_stop_id },
                            stops_cache[stop][i].route_id,
                            transfers + (IF RefChange(last_route, stops_cache[stop][i].route_id)
                                         THEN 1 ELSE 0)) :
                i \in { k \in 1..Len(stops_cache[stop]) :
                          stops_cache[stop][k].to_stop_id \notin walked } }
    IN  CHOOSE m \in onward \cup { transfers } :
            \A n \in onward \cup { transfers } : n <= m

\* no cycle-free path from the start of q reaches the transfer limit of q
LimitOutOfReach(q) == MostTransfers(q.start, { q.start }, "", 0) < q.max_transfers

\* the least total fare of a path from q.start to q.end; fares are not
\* negative, so a cheapest path is cycle-free
CheapestFare(q) ==
    BestAllowed("cost", q.start, q.end, { q.start }, "", 0, 0, 0, Unreached)

\* C35: for objective cost, on a graph in which no cycle-free path from the
\* start accumulates max_transfers or more transfers, _dijkstra_pathfinding
\* returns an itinerary whose total_cost is the least total fare of all paths
\* from start to end (and returns none only when there is no path).
C35_CostOptimal ==
    (QueueSearchAnswered /\ query.optimize_for = "cost" /\ LimitOutOfReach(query))
    => /\ result.found <=> CheapestFare(query) < Unreached
       /\ result.found => result.total_cost = CheapestFare(query)

\* the search pushed a dearer direct connection first and returned the
\* cheaper one listed after it
C35_Witness ==
    /\ QueueSearchAnswered
    /\ query.entry = "dijkstra"
    /\ query.optimize_for = "cost"
    /\ LimitOutOfReach(query)
    /\ result.found
    /\ result.total_cost = CheapestFare(query)
    /\ \E i \in 1..Len(stops_cache[query.start]) :
          /\ stops_cache[query.start][i].to_stop_id = query.end
          /\ stops_cache[query.start][i].cost > result.total_cost

\* ---------------------------------------------------------------------- C36
\* C36: a query whose objective is none of time, cost, transfers is rejected
\* before any search runs, at the services as at the HTTP endpoint: it gets no
\* itinerary, and status 400 from the endpoint.
C36_UnknownObjectiveRejected ==
    (pc = "done" /\ query.entry = "by_stops" /\ query.optimize_for \notin Objectives)
    => /\ ~result.found
       /\ route_stops_endpoint(query.start, query.end, query.optimize_for) = 400

\* ---------------------------------------------------------------------- C37
\* C37: asked about a stop id that is not cached, the two walking-time
\* operations raise nothing and return the infinite marker.
C37_UnknownStopUnreachable ==
    (pc = "done" /\ query.entry = "walking_unknown")
    => /\ ~result.raised
       /\ result.minutes = Infinity

\* ---------------------------------------------------------------------- C38
\* the stops find_nearest_stops left out that are within walking distance
CutOff ==
    { s \in DOMAIN stops_cache :
        /\ geodesic(query.latitude, StopPosition(s)) <= MAX_WALKING_DISTANCE_M * 1000
        /\ \A i \in 1..Len(result) : result[i][1] # s }

\* stops at one distance are returned in the order `before`, and of such
\* stops the limit keeps those that come first in it
TiesOrderedBy(before(_, _)) ==
    /\ \A i \in 1..Len(result) : \A j \in (i + 1)..Len(result) :
          result[i][2] = result[j][2] => before(result[i][1], result[j][1])
    /\ \A i \in 1..Len(result) : \A s \in CutOff :
          result[i][2] = geodesic(query.latitude, StopPosition(s))
             => before(result[i][1], s)

LoadedBefore(s, t) == LoadPosition(s) < LoadPosition(t)

LowerId(s, t) == s < t

\* C38: cached stops at exactly the same distance from the query point are
\* returned in the order in which they were loaded into the cache, whatever
\* their identifiers, and where the limit cuts between them the one loaded
\* earlier is kept.
C38_TiesInLoadOrder == NearestAnswered => TiesOrderedBy(LoadedBefore)

\* C38 amended: cached stops at exactly the same distance from the query
\* point are returned in ascending order of their identifiers, whatever the
\* order in which they were loaded, and where the limit cuts between them the
\* one with the lower identifier is kept.
C38_TiesInIdOrder == NearestAnswered => TiesOrderedBy(LowerId)

\* two stops at one distance, the one loaded later returned and the one
\* loaded first cut off by the limit
C38_Witness ==
    /\ NearestAnswered
    /\ Len(result) > 0
    /\ \E s \in CutOff :
          /\ result[Len(result)][2] = geodesic(query.latitude, StopPosition(s))
          /\ LoadedBefore(s, result[Len(result)][1])
          /\ LowerId(result[Len(result)][1], s)

\* ---------------------------------------------------------------------- C39
\* C39: an itinerary find_route returns as found never carries the summary
\* "No route found"; when origin and destination resolve to the same stop the
\* itinerary without segments keeps its summary "Already at destination".
C39_FoundNeverSaysNoRoute ==
    FindRouteFound =>
        /\ result.route_summary # << SummaryClause("No route found", "None", 0) >>
        /\ Len(result.path) = 1 =>
              result.route_summary = << SummaryClause("Already at destination", "None", 0) >>

=============================================================================
